---------------------------- MODULE Spec2Model ----------------------------
(***************************************************************************)
(* A model of the zara application runtime: tenant resolution, the         *)
(* tenant-scoped database handle, the event bus, the request pipeline and   *)
(* the per-namespace migration engine.  Each subsystem has its own          *)
(* variables, initial condition and actions; a specification per subsystem  *)
(* leaves the variables of the other subsystems parked at fixed values.     *)
(* Strings whose characters matter are sequences of one-character strings.  *)
(***************************************************************************)
EXTENDS Integers, Sequences, FiniteSets, TLC

VARIABLES
    \* ---- tenant resolution (ASGIApplication.get_x_subdomain)
    headers,          \* request.headers: the three tenant headers, <<>> when absent
    keyKind,          \* how the header mapping is keyed: "str" or "bytes"
    x_subdomain,      \* the value get_x_subdomain returned
    resolved,         \* get_x_subdomain has returned
    \* ---- TransactionContext (orm.py)
    txSchema,         \* TransactionContext.schema
    overrode_schema,  \* TransactionContext.overrode_schema
    search_path,      \* the connection's search_path
    txLog,            \* one record per call on the handle, oldest first
    \* ---- EventBus (application/events.py)
    now,              \* datetime.now()
    busLogger,        \* EventBus.logger has been set (by start)
    running,          \* EventBus._running
    busPc,            \* the _process_events task: "none", "running", "exited", "dead"
    busQueue,         \* EventBus._queue
    scheduled_events, \* EventBus._scheduled_events: <<event, fire_time>> pairs
    loopTasks,        \* coroutines handed to asyncio.create_task, not yet run (FIFO)
    busListeners,     \* EventBus._listeners: event name -> listeners in registration order
    notified,         \* every Listener.notify call so far: listener, event, time
    nextEventId,      \* the number of Event objects built by the bus's callers
    scheduledAt,      \* per scheduled event: its name, the time of the schedule call, its delay
    stored,           \* the file scheduled_events.json
    wakeAt,           \* when the sleep of the _process_events task ends
    fired,            \* every scheduled event the loop has moved to the queue, and when
    runOutcome,       \* how stop() and then run() ended in this process
    runs,             \* the number of server processes started so far
    \* ---- the request pipeline (ASGIApplication.__call__)
    reqPc,            \* per request: where its __call__ coroutine stands
    reqInfo,          \* per request: which branch of __call__ its path takes
    reqTrace,         \* per request: which lifecycle steps have happened, and in what order
    reqRaised,        \* per request: the failure the handler raised, None if none
    reqStatus,        \* per request: the status of the response written, 0 if none
    ctx,              \* per request task: the Context variables
    store,            \* the rows of the database, committed
    ormLog,           \* every Model.create call that stored a row, oldest first
    \* ---- AsyncDatabase.connect and MigrationManager
    cPc,              \* per connection: where its connect() coroutine stands
    cTenant,          \* per connection: AsyncDatabase.db_name
    cPath,            \* per connection: its search_path
    cLocal,           \* per connection: locals of connect/apply_pending_migrations
    cHist,            \* per connection: what it has executed and recorded so far
    dbSchemas,        \* the schemas of the database
    databasesRows,    \* the rows of public.databases
    migTables,        \* the schemas that hold a migrations table
    migRows,          \* per schema: the hashes in its migrations table
    effects,          \* the migration statements applied, per schema and connection
    \* ---- a Model instance (database/base.py, database/orm.py) and its table
    modelImpl,        \* which Model class the instance derives from: "base" or "orm"
    values,           \* the instance's field values
    instId,           \* the instance's id, 0 for None
    changed_fields,   \* the dirty set: changed_fields (a list) or _changed_fields (a set)
    loaded_fields,    \* _loaded_fields
    tableRows,        \* the rows of the model's table, by id
    lastOp,           \* the last call on the instance and what it did
    selfPublic,       \* self.public: the model class derives from Public
    returned,         \* what the last call returned or raised
    dispatched,       \* the events the instance's calls dispatched on the bus
    \* ---- routing (application.py)
    routers,          \* self.routers: each router's routes, in insertion order
    resolution,       \* the last request's method and path and what they resolved to
    \* ---- the request context (utilities/context.py, asgi/server.py)
    taskContext,      \* the value of each ContextVar in each context
    tokens,           \* per task, the tokens of the scopes it is in, innermost last
    taskPc,           \* per task: "idle", "running", "done"
    lastExit,         \* the last scope left: its task, and whether the body raised
    \* ---- the rate limiter of a route (security/rate_limit.py)
    rlLimits,         \* per limiter of the wrapper: its rate and period
    rlNow,            \* time.time()
    rlRequests,       \* per limiter: self.requests, the admitted timestamps by key
    rlLog,            \* the requests the wrapper answered: key, time, admissions, status
    \* ---- auth_required (login/auth_required.py)
    authRequired,     \* the decorator's arguments: permissions and roles
    authCall,         \* the last call of the wrapper: its header and what it did
    \* ---- the cookies of a request (application.py Request, asgi/session.py)
    ckCookies,        \* request.cookies
    ckCalls,          \* the set_cookie calls the handler made: name and value
    ckPc,             \* "handler", "sent" (the handler returned) or "raised"
    ckHeaders,        \* the set-cookie headers of the response
    \* ---- generated ids (utilities/id57.py)
    idNow,            \* int(time.time() * 1000)
    idLog,            \* the ids generated: timestamp, uuid integer and id text
    \* ---- the EventBus of server/events.py
    lgQueue,          \* the number of events in self.queue
    lgUnfinished,     \* the queue's count of unfinished tasks, which join() awaits
    lgScheduled,      \* the number of events in self.scheduled_events
    lgShutdown,       \* self._shutdown_event.is_set()
    lgProc,           \* where the process_events task is
    lgStop,           \* where the caller of stop() is
    lgSaved,          \* what save_function was given: -1 before the call
    \* ---- the migration generator (migration_generator.py)
    mgModels,         \* the fields the entity class declares, by name
    mgFiles,          \* the migration files, oldest first: each file's upgrade operations
    mgFresh           \* a migration was generated since the entity last changed

varsTenant == <<headers, keyKind, x_subdomain, resolved>>
varsTxn == <<txSchema, overrode_schema, search_path, txLog>>
varsBus ==
    <<now, busLogger, running, busPc, busQueue, scheduled_events, loopTasks,
      busListeners, notified, nextEventId, scheduledAt, stored, wakeAt, fired,
      runOutcome, runs>>
varsApp == <<reqPc, reqInfo, reqTrace, reqRaised, reqStatus, ctx, store, ormLog>>
varsConn ==
    <<cPc, cTenant, cPath, cLocal, cHist, dbSchemas, databasesRows, migTables,
      migRows, effects>>
varsOrm ==
    <<modelImpl, values, instId, changed_fields, loaded_fields, tableRows, lastOp,
      selfPublic, returned, dispatched>>
varsRoute == <<routers, resolution>>
varsCtx == <<taskContext, tokens, taskPc, lastExit>>
varsCore == <<varsTenant, varsTxn, varsBus, varsApp, varsConn, varsOrm, varsRoute, varsCtx>>
varsRate == <<rlLimits, rlNow, rlRequests, rlLog>>
varsAuth == <<authRequired, authCall>>
varsCookie == <<ckCookies, ckCalls, ckPc, ckHeaders>>
varsId == <<idNow, idLog>>
varsLegacy ==
    <<lgQueue, lgUnfinished, lgScheduled, lgShutdown, lgProc, lgStop, lgSaved>>
varsGen == <<mgModels, mgFiles, mgFresh>>
varsMore == <<varsRate, varsAuth, varsCookie, varsId, varsLegacy, varsGen>>
vars == <<varsCore, varsMore>>

othersTenant == <<varsTxn, varsBus, varsApp, varsConn, varsOrm, varsRoute, varsCtx, varsMore>>
othersTxn == <<varsTenant, varsBus, varsApp, varsConn, varsOrm, varsRoute, varsCtx, varsMore>>
othersBus == <<varsTenant, varsTxn, varsApp, varsConn, varsOrm, varsRoute, varsCtx, varsMore>>
othersApp == <<varsTenant, varsTxn, varsConn, varsOrm, varsRoute, varsCtx, varsMore>>
othersConn == <<varsTenant, varsTxn, varsBus, varsApp, varsOrm, varsRoute, varsCtx, varsMore>>
othersOrm == <<varsTenant, varsTxn, varsBus, varsApp, varsConn, varsRoute, varsCtx, varsMore>>
othersRate == <<varsCore, varsAuth, varsCookie, varsId, varsLegacy, varsGen>>
othersAuth == <<varsCore, varsRate, varsCookie, varsId, varsLegacy, varsGen>>
othersCookie == <<varsCore, varsRate, varsAuth, varsId, varsLegacy, varsGen>>
othersId == <<varsCore, varsRate, varsAuth, varsCookie, varsLegacy, varsGen>>
othersLegacy == <<varsCore, varsRate, varsAuth, varsCookie, varsId, varsGen>>
othersGen == <<varsCore, varsRate, varsAuth, varsCookie, varsId, varsLegacy>>

None == "None"
\* scheduled_events.json: absent, or a list of entries
NoFile == [exists |-> FALSE, corrupt |-> FALSE, entries |-> <<>>]

(***************************************************************************)
(* The values at which a specification leaves the subsystems it does not   *)
(* exercise.                                                               *)
(***************************************************************************)
ParkTenant ==
    /\ headers = [xsub |-> <<>>, xfh |-> <<>>, host |-> <<>>]
    /\ keyKind = "str"
    /\ x_subdomain = <<>>
    /\ resolved = FALSE

ParkTxn ==
    /\ txSchema = None
    /\ overrode_schema = None
    /\ search_path = "public"
    /\ txLog = <<>>

ParkBus ==
    /\ now = 0
    /\ busLogger = FALSE
    /\ running = FALSE
    /\ busPc = "none"
    /\ busQueue = <<>>
    /\ scheduled_events = <<>>
    /\ loopTasks = <<>>
    /\ busListeners = <<>>
    /\ notified = <<>>
    /\ nextEventId = 0
    /\ scheduledAt = <<>>
    /\ stored = NoFile
    /\ wakeAt = 0
    /\ fired = <<>>
    /\ runOutcome = "none"
    /\ runs = 0

ParkApp ==
    /\ reqPc = <<>>
    /\ reqInfo = <<>>
    /\ reqTrace = <<>>
    /\ reqRaised = <<>>
    /\ reqStatus = <<>>
    /\ ctx = <<>>
    /\ store = {}
    /\ ormLog = <<>>

ParkConn ==
    /\ cPc = <<>>
    /\ cTenant = <<>>
    /\ cPath = <<>>
    /\ cLocal = <<>>
    /\ cHist = <<>>
    /\ dbSchemas = {}
    /\ databasesRows = {}
    /\ migTables = {}
    /\ migRows = <<>>
    /\ effects = {}

ParkOrm ==
    /\ modelImpl = "base"
    /\ values = <<>>
    /\ instId = 0
    /\ changed_fields = <<>>
    /\ loaded_fields = {}
    /\ tableRows = <<>>
    /\ lastOp = <<>>
    /\ selfPublic = FALSE
    /\ returned = <<>>
    /\ dispatched = {}

ParkRoute ==
    /\ routers = <<>>
    /\ resolution = <<>>

ParkCtx ==
    /\ taskContext = <<>>
    /\ tokens = <<>>
    /\ taskPc = <<>>
    /\ lastExit = <<>>

ParkCore ==
    ParkTenant /\ ParkTxn /\ ParkBus /\ ParkApp /\ ParkConn /\ ParkOrm /\ ParkRoute
        /\ ParkCtx

ParkRate ==
    /\ rlLimits = <<>>
    /\ rlNow = 0
    /\ rlRequests = <<>>
    /\ rlLog = <<>>

ParkAuth ==
    /\ authRequired = <<>>
    /\ authCall = <<>>

ParkCookie ==
    /\ ckCookies = <<>>
    /\ ckCalls = <<>>
    /\ ckPc = "none"
    /\ ckHeaders = <<>>

ParkId ==
    /\ idNow = 0
    /\ idLog = <<>>

ParkLegacy ==
    /\ lgQueue = 0
    /\ lgUnfinished = 0
    /\ lgScheduled = 0
    /\ lgShutdown = FALSE
    /\ lgProc = "none"
    /\ lgStop = "none"
    /\ lgSaved = -1

ParkGen ==
    /\ mgModels = <<>>
    /\ mgFiles = <<>>
    /\ mgFresh = FALSE

ParkMore == ParkRate /\ ParkAuth /\ ParkCookie /\ ParkId /\ ParkLegacy /\ ParkGen

(***************************************************************************)
(* String helpers, computed as Python computes them.                       *)
(***************************************************************************)
LowerChar(c) ==
    CASE c = "A" -> "a"
      [] c = "B" -> "b"
      [] c = "C" -> "c"
      [] OTHER -> c

\* str.lower()
Lower(s) == [i \in 1..Len(s) |-> LowerChar(s[i])]

\* str.replace(old, new) for one-character old and new
Replace(s, old, new) == [i \in 1..Len(s) |-> IF s[i] = old THEN new ELSE s[i]]

\* position of the first occurrence of c in s, 0 when there is none
IndexOf(s, c) ==
    IF \E i \in 1..Len(s) : s[i] = c
    THEN CHOOSE i \in 1..Len(s) : s[i] = c /\ \A j \in 1..(i - 1) : s[j] # c
    ELSE 0

\* s.split(sep)[0]
SplitFirst(s, sep) ==
    IF IndexOf(s, sep) = 0 THEN s ELSE SubSeq(s, 1, IndexOf(s, sep) - 1)

\* len(s.split(sep))
SplitLen(s, sep) == Cardinality({i \in 1..Len(s) : s[i] = sep}) + 1

(***************************************************************************)
(* Tenant resolution.                                                      *)
(***************************************************************************)
DefaultTenant == <<"a", "c", "m", "e", "_", "c", "o", "r", "p">>

XSubdomainValues == { <<>>, <<"a">>, <<"A", "-", "b">> }
XForwardedHostValues ==
    { <<>>, <<"b", ".", "x", ".", "y">>, <<"B", "-", "c", ":", "8">>,
      <<"b", ".", "x", ":", "8">> }
HostValues ==
    { <<>>, <<"c", ".", "x", ".", "y">>, <<"c", ".", "x">>,
      <<"c", ".", "w", ".", "x", ".", "y">>,
      <<"A", "-", "C", ".", "x", ".", "y">>, <<"c">> }

HeaderMaps ==
    [xsub : XSubdomainValues, xfh : XForwardedHostValues, host : HostValues]

\* request.headers.get("<Name>") with a str key: a mapping keyed by bytes
\* (dict(scope["headers"]) over the parser's (bytes, bytes) pairs) has no
\* such key, so the lookup yields None.
HeaderGet(h, kind, name) == IF kind = "bytes" THEN <<>> ELSE h[name]

get_x_subdomain(h, kind) ==
    LET xsub == HeaderGet(h, kind, "xsub")
        xfh  == HeaderGet(h, kind, "xfh")
        host == HeaderGet(h, kind, "host")
        r1 == IF xsub # <<>> THEN xsub ELSE DefaultTenant
        r2 == IF xfh # <<>> THEN SplitFirst(xfh, ":") ELSE r1
        r3 == IF host # <<>> /\ SplitLen(host, ".") = 3
              THEN SplitFirst(host, ".") ELSE r2
    IN  Replace(Lower(r3), "-", "_")

InitTenant ==
    /\ headers \in HeaderMaps
    /\ keyKind \in {"str", "bytes"}
    /\ x_subdomain = <<>>
    /\ resolved = FALSE


\* x_subdomain = await self.get_x_subdomain(request)
GetXSubdomain ==
    /\ ~resolved
    /\ x_subdomain' = get_x_subdomain(headers, keyKind)
    /\ resolved' = TRUE
    /\ UNCHANGED <<headers, keyKind>>
    /\ UNCHANGED othersTenant

\* the next request arrives with other headers
NextRequestHeaders ==
    /\ resolved
    /\ headers' \in HeaderMaps
    /\ keyKind' \in {"str", "bytes"}
    /\ x_subdomain' = <<>>
    /\ resolved' = FALSE
    /\ UNCHANGED othersTenant

NextTenant == GetXSubdomain \/ NextRequestHeaders

BootTenant == InitTenant /\ ParkTxn /\ ParkBus /\ ParkApp /\ ParkConn /\ ParkOrm /\ ParkRoute /\ ParkCtx /\ ParkMore

SpecTenant == BootTenant /\ [][NextTenant]_vars

(***************************************************************************)
(* C2: the tenant id is X-Subdomain if present; else the first label of    *)
(* X-Forwarded-Host; else the first label of Host when the host has three  *)
(* or more labels; else the default tenant; lowercased, '-' replaced by    *)
(* '_'.                                                                    *)
(***************************************************************************)
ClaimedTenant(h) ==
    LET chosen == IF h.xsub # <<>> THEN h.xsub
                  ELSE IF h.xfh # <<>> THEN SplitFirst(h.xfh, ".")
                  ELSE IF h.host # <<>> /\ SplitLen(h.host, ".") >= 3
                       THEN SplitFirst(h.host, ".")
                  ELSE DefaultTenant
    IN  Replace(Lower(chosen), "-", "_")

C2_TenantPriority == resolved => x_subdomain = ClaimedTenant(headers)

(***************************************************************************)
(* TransactionContext: a connection plus a current-namespace label.        *)
(***************************************************************************)
MaxTxCalls == 3

Schemas == {"public", "t1", "t2"}

\* TransactionContext.__init__ on a pooled connection: nothing is SET yet
InitTxn ==
    /\ txSchema \in Schemas
    /\ overrode_schema = None
    /\ search_path = "public"
    /\ txLog = <<>>

\* The handle as a value: sp is the connection's search_path, ov is
\* overrode_schema.
TxState == [sp |-> search_path, ov |-> overrode_schema]

\* set_schema: SET search_path TO schema; self.overrode_schema = schema
set_schema(st, schema) == [sp |-> schema, ov |-> schema]

\* unset_schema: SET search_path TO public; self.overrode_schema = None
unset_schema(st) == [sp |-> "public", ov |-> None]

\* execute, up to the statement: the namespace switch that precedes it
execute_before(st, self_schema, public, schema) ==
    IF st.ov = None
    THEN IF schema # None THEN set_schema(st, schema)
         ELSE IF self_schema # None /\ ~public THEN set_schema(st, self_schema)
         ELSE IF public THEN set_schema(st, "public")
         ELSE st
    ELSE st

\* execute, after the statement: the switch back
execute_after(st, self_schema, public) ==
    IF self_schema # None /\ public /\ st.ov = None
    THEN set_schema(st, self_schema)
    ELSE st

TxLogEntry(op, public, schema, st) ==
    [op |-> op, public |-> public, schema |-> schema, ranIn |-> st.sp]

\* await txn.execute(statement, public=public, schema=schema)
TxExecute(public, schema) ==
    /\ txSchema # None
    /\ Len(txLog) < MaxTxCalls
    /\ LET st1 == execute_before(TxState, txSchema, public, schema)
           st2 == execute_after(st1, txSchema, public)
       IN  /\ txLog' = Append(txLog, TxLogEntry("execute", public, schema, st1))
           /\ search_path' = st2.sp
           /\ overrode_schema' = st2.ov
    /\ UNCHANGED txSchema
    /\ UNCHANGED othersTxn

\* await txn.execute_in_schema(statement, schema=schema)
TxExecuteInSchema(schema) ==
    /\ txSchema # None
    /\ Len(txLog) < MaxTxCalls
    /\ LET st0 == set_schema(TxState, schema)
           st1 == execute_before(st0, txSchema, FALSE, schema)
           st2 == execute_after(st1, txSchema, FALSE)
       IN  /\ txLog' = Append(txLog,
                              TxLogEntry("execute_in_schema", FALSE, schema, st1))
           /\ search_path' = st2.sp
           /\ overrode_schema' = st2.ov
    /\ UNCHANGED txSchema
    /\ UNCHANGED othersTxn

\* await txn.set_schema(schema)
TxSetSchema(schema) ==
    /\ txSchema # None
    /\ Len(txLog) < MaxTxCalls
    /\ LET st1 == set_schema(TxState, schema)
       IN  /\ txLog' = Append(txLog, TxLogEntry("set_schema", FALSE, schema, st1))
           /\ search_path' = st1.sp
           /\ overrode_schema' = st1.ov
    /\ UNCHANGED txSchema
    /\ UNCHANGED othersTxn

\* await txn.unset_schema()
TxUnsetSchema ==
    /\ txSchema # None
    /\ Len(txLog) < MaxTxCalls
    /\ LET st1 == unset_schema(TxState)
       IN  /\ txLog' = Append(txLog, TxLogEntry("unset_schema", FALSE, None, st1))
           /\ search_path' = st1.sp
           /\ overrode_schema' = st1.ov
    /\ UNCHANGED txSchema
    /\ UNCHANGED othersTxn

NextTxn ==
    \/ \E public \in BOOLEAN : TxExecute(public, None)
    \/ \E schema \in Schemas : TxExecute(FALSE, schema)
    \/ \E schema \in Schemas : TxExecuteInSchema(schema)
    \/ \E schema \in Schemas : TxSetSchema(schema)
    \/ TxUnsetSchema

BootTxn == ParkTenant /\ InitTxn /\ ParkBus /\ ParkApp /\ ParkConn /\ ParkOrm /\ ParkRoute /\ ParkCtx /\ ParkMore

SpecTxn == BootTxn /\ [][NextTxn]_vars

(***************************************************************************)
(* C3: in any sequence of execute calls on a handle acquired for tenant T, *)
(* a call with public=true runs in the public namespace, a call without    *)
(* public runs in T, and after every call the current namespace is T.      *)
(***************************************************************************)
OnlyExecuteCalls ==
    \A i \in 1..Len(txLog) : txLog[i].op = "execute" /\ txLog[i].schema = None

C3_PublicSwitchesBack ==
    (OnlyExecuteCalls /\ txLog # <<>>) =>
        /\ \A i \in 1..Len(txLog) :
              txLog[i].ranIn = IF txLog[i].public THEN "public" ELSE txSchema
        /\ search_path = txSchema

(***************************************************************************)
(* EventBus (application/events.py).                                       *)
(***************************************************************************)
MaxEvents == 2
MaxTime == 2
MaxDelay == 1
MaxRuns == 2

EventNames == {"A", "B"}
\* the events a caller of the bus builds: Event("A", {}) and Event("B", {...})
EventKinds == {[name |-> "A", data |-> "empty"], [name |-> "B", data |-> "dict"]}
AppEventNames == {"BeforeRequest", "AfterRequest", "AuditEvent", "UnhandledException"}
AllEventNames == EventNames \cup AppEventNames
BusListenerIds == {"l1", "l2"}

\* An Event: data is "empty" for Event(name, {}) and "dict" for a payload
\* with entries; req is the request the pipeline built it for, 0 otherwise.
MkEvent(id, name, req, data) ==
    [id |-> id, name |-> name, req |-> req, data |-> data]

\* Request (application.py) defines no attribute original_headers
RequestHasOriginalHeaders == FALSE

\* Context.get_request() in the task that start() creates for
\* _process_events: no Context.context was entered there
DeliveryTaskRequest == None

\* create_audit_log(model), given whether model is an AuditLog and the
\* request of the calling task's context: returns early, raises
\* AttributeError (request.logger on None, request.original_headers), or
\* reaches audit_log.create()
create_audit_log(isAuditLog, request) ==
    IF isAuditLog THEN "return"
    ELSE IF request = None THEN "raise"
    ELSE IF ~RequestHasOriginalHeaders THEN "raise"
    ELSE "insert"

\* Whether awaiting listener.notify(event) raises.  audit_listener passes
\* the Event to create_audit_log; l2 is a caller's listener that raises.
ListenerRaises(listener, event) ==
    \/ listener = "l2"
    \/ listener = "audit_listener"
         /\ create_audit_log(FALSE, DeliveryTaskRequest) = "raise"

\* _notify_listeners: the listeners awaited, in registration order, up to and
\* including the first that raises (the exception leaves the loop)
RECURSIVE NotifyPrefix(_, _)
NotifyPrefix(ls, event) ==
    IF ls = <<>> THEN <<>>
    ELSE IF ListenerRaises(Head(ls), event) THEN <<Head(ls)>>
    ELSE <<Head(ls)>> \o NotifyPrefix(Tail(ls), event)

NotifyRaises(ls, event) == \E i \in 1..Len(ls) : ListenerRaises(ls[i], event)

\* one unit of `now` is 50 ms: asyncio.sleep(0.1), and a delay of 0.1 s
SleepTicks == 2
DelayTicks == 2

\* what _serialize_scheduled_events can do
StopOutcomes == {"written", "open_raises", "write_raises"}

\* the variables the bus keeps besides its own fields
busAux == <<wakeAt, fired, runOutcome, runs>>

\* a queue that hands out the newest event first
putFront(queue, event) == <<event>> \o queue

\* asyncio.Queue.put on the unbounded queue: first in, first out
put(queue, event) == Append(queue, event)

RECURSIVE PutAll(_, _)
PutAll(queue, events) ==
    IF events = <<>> THEN queue
    ELSE PutAll(put(queue, Head(events)), Tail(events))

\* a loop that moves a scheduled event one time unit early
IsDueEarly(t, fire_time) == t + 1 >= fire_time

\* now >= fire_time
IsDue(t, fire_time) == t >= fire_time

DueOf(sched, t) == SelectSeq(sched, LAMBDA p : IsDue(t, p.fire_time))
NotDueOf(sched, t) == SelectSeq(sched, LAMBDA p : ~IsDue(t, p.fire_time))

\* Event.deserialize: Event.__init__ rejects a payload entry that has no
\* __dict__, which every entry of a deserialised payload is
DeserializeRaises(entry) == entry.event.data # "empty"

\* _load_scheduled_events: the entries appended before the first that raises
RECURSIVE LoadPrefix(_)
LoadPrefix(entries) ==
    IF entries = <<>> THEN <<>>
    ELSE IF DeserializeRaises(Head(entries)) THEN <<>>
    ELSE <<Head(entries)>> \o LoadPrefix(Tail(entries))

LoadRaises(entries) == \E i \in 1..Len(entries) : DeserializeRaises(entries[i])

InitBus ==
    /\ now = 0
    /\ busLogger = FALSE
    /\ running = FALSE
    /\ busPc = "none"
    /\ busQueue = <<>>
    /\ scheduled_events = <<>>
    /\ loopTasks = <<>>
    /\ busListeners = [n \in AllEventNames |-> <<>>]
    /\ notified = <<>>
    /\ nextEventId = 0
    /\ scheduledAt = <<>>
    /\ stored = NoFile
    /\ wakeAt = 0
    /\ fired = <<>>
    /\ runOutcome = "none"
    /\ runs = 0

\* register_listener(event_name, listener), by the application before it
\* starts the bus; every later process registers the same listeners
RegisterListener(name, listener) ==
    /\ ~busLogger
    /\ runs = 0
    /\ \A n \in AllEventNames :
          \A i \in 1..Len(busListeners[n]) : busListeners[n][i] # listener
    /\ busListeners' = [busListeners EXCEPT ![name] = Append(@, listener)]
    /\ UNCHANGED <<now, busLogger, running, busPc, busQueue, scheduled_events,
                   loopTasks, notified, nextEventId, scheduledAt, stored>>
    /\ UNCHANGED busAux
    /\ UNCHANGED othersBus

\* dispatch_event(Event(name, data)); before start() the bus has no logger
\* and the call raises.  Once run() has called stop() the loop runs no
\* other caller.
DispatchEvent(name, data) ==
    /\ busLogger
    /\ runOutcome = "none"
    /\ nextEventId < MaxEvents
    /\ nextEventId' = nextEventId + 1
    /\ loopTasks' = Append(loopTasks,
                           [kind |-> "put",
                            event |-> MkEvent(nextEventId + 1, name, 0, data),
                            fire_time |-> 0])
    /\ UNCHANGED <<now, busLogger, running, busPc, busQueue, scheduled_events,
                   busListeners, notified, scheduledAt, stored>>
    /\ UNCHANGED busAux
    /\ UNCHANGED othersBus

\* schedule_event(Event(name, data), delay), by a caller that runs before
\* run() calls stop()
ScheduleEvent(name, data, delay) ==
    /\ busLogger
    /\ runOutcome = "none"
    /\ nextEventId < MaxEvents
    /\ nextEventId' = nextEventId + 1
    /\ loopTasks' = Append(loopTasks,
                           [kind |-> "add_scheduled",
                            event |-> MkEvent(nextEventId + 1, name, 0, data),
                            fire_time |-> now + delay])
    /\ scheduledAt' = scheduledAt @@
           ((nextEventId + 1) :> [t |-> now, d |-> delay, name |-> name])
    /\ UNCHANGED <<now, busLogger, running, busPc, busQueue, scheduled_events,
                   busListeners, notified, stored>>
    /\ UNCHANGED busAux
    /\ UNCHANGED othersBus

\* the event loop runs the oldest task created by create_task:
\* self._queue.put(event) or self._add_scheduled_event(event, fire_time)
RunTask ==
    /\ loopTasks # <<>>
    /\ LET task == Head(loopTasks)
       IN  IF task.kind = "put"
           THEN /\ busQueue' = put(busQueue, task.event)
                /\ UNCHANGED scheduled_events
           ELSE /\ scheduled_events' =
                       Append(scheduled_events,
                              [event |-> task.event, fire_time |-> task.fire_time])
                /\ UNCHANGED busQueue
    /\ loopTasks' = Tail(loopTasks)
    /\ UNCHANGED <<now, busLogger, running, busPc, busListeners, notified,
                   nextEventId, scheduledAt, stored>>
    /\ UNCHANGED busAux
    /\ UNCHANGED othersBus

\* serve_forever calls start() once, on the bus the process constructed:
\* set the logger, _running = True, load the stored scheduled events, create
\* the _process_events task.  A stored event that does not deserialise, or
\* a file orjson cannot parse, makes start() raise before the task is
\* created; only FileNotFoundError is caught.
Start ==
    /\ ~running
    /\ busPc = "none"
    /\ ~busLogger
    /\ runs < MaxRuns
    /\ runs' = runs + 1
    /\ busLogger' = TRUE
    /\ running' = TRUE
    /\ runOutcome' = "none"
    /\ wakeAt' = now
    /\ IF ~stored.exists
       THEN /\ UNCHANGED scheduled_events
            /\ busPc' = "running"
       ELSE IF stored.corrupt
       THEN /\ UNCHANGED scheduled_events
            /\ busPc' = "unstarted"
       ELSE /\ scheduled_events' = scheduled_events \o LoadPrefix(stored.entries)
            /\ busPc' = IF LoadRaises(stored.entries) THEN "unstarted" ELSE "running"
    /\ UNCHANGED <<now, busQueue, loopTasks, busListeners, notified, nextEventId,
                   scheduledAt, stored, fired>>
    /\ UNCHANGED othersBus

\* stop(), called by run() on KeyboardInterrupt while serve_forever runs:
\* _running = False, then _serialize_scheduled_events, which runs to its end
\* without yielding.  It writes the scheduled events not yet fired; or
\* open() raises and the file is left as it was; or the write raises after
\* open(..., "wb") has truncated the file.  Nothing in stop() catches.
\* run_until_complete(stop()) queues stop() behind the tasks create_task
\* made before it, so these have run when its body starts.
Stop(outcome) ==
    /\ running
    /\ busPc # "unstarted"
    /\ loopTasks = <<>>
    /\ running' = FALSE
    /\ stored' = CASE outcome = "written" ->
                        [exists |-> TRUE, corrupt |-> FALSE, entries |-> scheduled_events]
                   [] outcome = "open_raises" -> stored
                   [] outcome = "write_raises" ->
                        [exists |-> TRUE, corrupt |-> TRUE, entries |-> <<>>]
    /\ runOutcome' = IF outcome = "written" THEN "stop_returned" ELSE "stop_raised"
    /\ UNCHANGED <<now, busLogger, busPc, busQueue, scheduled_events, loopTasks,
                   busListeners, notified, nextEventId, scheduledAt, wakeAt, fired,
                   runs>>
    /\ UNCHANGED othersBus

\* run() leaves its try: after stop() has returned, or with the exception
\* stop() or serve_forever raised; `finally` closes the loop with whatever
\* the queue and the tasks still hold.  The next process constructs a new
\* bus and registers the same listeners.
ProcessExit ==
    /\ busLogger
    /\ ~running \/ busPc = "unstarted"
    /\ busLogger' = FALSE
    /\ running' = FALSE
    /\ busPc' = "none"
    /\ busQueue' = <<>>
    /\ scheduled_events' = <<>>
    /\ loopTasks' = <<>>
    /\ wakeAt' = 0
    /\ runOutcome' = IF runOutcome = "stop_returned" THEN "exit_clean"
                     ELSE "exit_exception"
    /\ UNCHANGED <<now, busListeners, notified, nextEventId, scheduledAt, stored,
                   fired, runs>>
    /\ UNCHANGED othersBus

\* one pass of the while loop of _process_events, from the end of its sleep
\* to the next sleep: move the due scheduled events to the queue in list
\* order, take one event from the queue, notify its listeners
ProcessEvents ==
    /\ busPc = "running"
    /\ running
    /\ now >= wakeAt
    /\ LET due == DueOf(scheduled_events, now)
           q1 == PutAll(busQueue, [i \in 1..Len(due) |-> due[i].event])
       IN  /\ scheduled_events' = NotDueOf(scheduled_events, now)
           /\ fired' = fired \o
                  [i \in 1..Len(due) |->
                      [id |-> due[i].event.id, fire_time |-> due[i].fire_time,
                       at |-> now]]
           /\ IF q1 = <<>>
              THEN /\ busQueue' = q1
                   /\ wakeAt' = now + SleepTicks
                   /\ UNCHANGED <<notified, busPc>>
              ELSE LET event == Head(q1)
                       ls == busListeners[event.name]
                       pre == NotifyPrefix(ls, event)
                   IN  /\ busQueue' = Tail(q1)
                       /\ notified' = notified \o
                              [i \in 1..Len(pre) |->
                                  [listener |-> pre[i], event |-> event, at |-> now]]
                       /\ IF NotifyRaises(ls, event)
                          THEN busPc' = "dead" /\ UNCHANGED wakeAt
                          ELSE busPc' = "running" /\ wakeAt' = now + SleepTicks
    /\ UNCHANGED <<now, busLogger, running, loopTasks, busListeners, nextEventId,
                   scheduledAt, stored, runOutcome, runs>>
    /\ UNCHANGED othersBus

\* the sleep ends after stop(): the while condition fails and the task ends
LoopExit ==
    /\ busPc = "running"
    /\ ~running
    /\ now >= wakeAt
    /\ busPc' = "exited"
    /\ UNCHANGED <<now, busLogger, running, busQueue, scheduled_events, loopTasks,
                   busListeners, notified, nextEventId, scheduledAt, stored>>
    /\ UNCHANGED busAux
    /\ UNCHANGED othersBus

\* time passes
Tick ==
    /\ now < MaxTime
    /\ now' = now + 1
    /\ UNCHANGED <<busLogger, running, busPc, busQueue, scheduled_events, loopTasks,
                   busListeners, notified, nextEventId, scheduledAt, stored>>
    /\ UNCHANGED busAux
    /\ UNCHANGED othersBus

\* time passes on an event loop that is never late: no created task is
\* waiting to run and the sleep of _process_events has not yet ended
TickPunctual(horizon) ==
    /\ loopTasks = <<>>
    /\ ~(busPc = "running" /\ running /\ now >= wakeAt)
    /\ now < horizon
    /\ now' = now + 1
    /\ UNCHANGED <<busLogger, running, busPc, busQueue, scheduled_events, loopTasks,
                   busListeners, notified, nextEventId, scheduledAt, stored>>
    /\ UNCHANGED busAux
    /\ UNCHANGED othersBus

NextBus ==
    \/ \E name \in EventNames, l \in BusListenerIds : RegisterListener(name, l)
    \/ \E k \in EventKinds : DispatchEvent(k.name, k.data)
    \/ \E k \in EventKinds, delay \in 0..MaxDelay :
          ScheduleEvent(k.name, k.data, delay)
    \/ RunTask
    \/ Start
    \/ ProcessEvents
    \/ Tick

BootBus == ParkTenant /\ ParkTxn /\ InitBus /\ ParkApp /\ ParkConn /\ ParkOrm /\ ParkRoute /\ ParkCtx /\ ParkMore

\* the bus from construction on, while the server runs
SpecBus == BootBus /\ [][NextBus]_vars

\* the running bus on an event loop that is never late
NextBusTimed ==
    \/ \E name \in EventNames, l \in BusListenerIds : RegisterListener(name, l)
    \/ \E k \in EventKinds : DispatchEvent(k.name, k.data)
    \/ \E k \in EventKinds, delay \in 0..DelayTicks :
          ScheduleEvent(k.name, k.data, delay)
    \/ RunTask
    \/ Start
    \/ ProcessEvents
    \/ TickPunctual(MaxTime + SleepTicks)

SpecBusTimed == BootBus /\ [][NextBusTimed]_vars

\* the bus over shutdowns and restarts of the server, on an event loop that
\* is never late
NextBusLifecycle ==
    \/ \E name \in EventNames, l \in BusListenerIds : RegisterListener(name, l)
    \/ \E k \in EventKinds : DispatchEvent(k.name, k.data)
    \/ \E k \in EventKinds, delay \in 0..MaxDelay :
          ScheduleEvent(k.name, k.data, delay)
    \/ RunTask
    \/ Start
    \/ ProcessEvents
    \/ TickPunctual(MaxTime)
    \/ \E outcome \in StopOutcomes : Stop(outcome)
    \/ LoopExit
    \/ ProcessExit

SpecBusLifecycle == BootBus /\ [][NextBusLifecycle]_vars

(***************************************************************************)
(* C4: an event scheduled with delay d > 0 at time t is notified to no     *)
(* listener at any time earlier than t + d.                                *)
(***************************************************************************)
C4_NotBeforeFireTime ==
    \A i \in 1..Len(notified) :
        LET id == notified[i].event.id
        IN  (id \in DOMAIN scheduledAt /\ scheduledAt[id].d > 0) =>
                notified[i].at >= scheduledAt[id].t + scheduledAt[id].d

\* a listener has been notified of an event scheduled with a positive delay
C4_Witness ==
    \E i \in 1..Len(notified) :
        /\ notified[i].event.id \in DOMAIN scheduledAt
        /\ scheduledAt[notified[i].event.id].d > 0

(***************************************************************************)
(* The request pipeline (ASGIApplication.__call__, handle_exception) with  *)
(* Model.create writing through the request's database handle.             *)
(***************************************************************************)
MaxRequests == 1
MaxWrites == 2

Requests == 1..MaxRequests
PathKinds == {"favicon", "routed", "unrouted"}
ModelClasses == {"User", "AuditLog"}
Keys == {"k1"}

\* errors.py: each class and its base; Exception stands for every other class
Parent ==
    [BaseError |-> "Exception",
     InternalServerError |-> "BaseError",
     AuthenticationError |-> "BaseError",
     UnauthenticatedError |-> "AuthenticationError",
     ForbiddenError |-> "BaseError",
     NotFoundError |-> "BaseError",
     ValidationError |-> "BaseError",
     MissingTranslationKeyError |-> "InternalServerError",
     DatabaseError |-> "BaseError",
     DuplicateResourceError |-> "DatabaseError",
     ResourceNotFoundError |-> "NotFoundError",
     BadRequestError |-> "BaseError",
     MethodNotAllowedError |-> "BaseError",
     ConflictError |-> "BaseError",
     TooManyRequestsError |-> "BaseError",
     ServiceUnavailableError |-> "BaseError",
     DatabaseInputValidationError |-> "BaseError"]

RECURSIVE IsInstance(_, _)
IsInstance(cls, base) ==
    \/ cls = base
    \/ cls \in DOMAIN Parent /\ IsInstance(Parent[cls], base)

\* what a handler raises
RaisedKinds ==
    {"ValidationError", "AuthenticationError", "ForbiddenError",
     "ResourceNotFoundError", "MethodNotAllowedError", "DuplicateResourceError",
     "TooManyRequestsError", "ServiceUnavailableError", "InternalServerError",
     "Exception"}

\* handle_exception(e): the status it sends, and whether it dispatches
\* UnhandledException
handle_exception(e) ==
    IF IsInstance(e, "InternalServerError") THEN [status |-> 500, unhandled |-> FALSE]
    ELSE IF IsInstance(e, "ValidationError") THEN [status |-> 400, unhandled |-> FALSE]
    ELSE IF IsInstance(e, "AuthenticationError") THEN [status |-> 401, unhandled |-> FALSE]
    ELSE IF IsInstance(e, "ResourceNotFoundError") THEN [status |-> 404, unhandled |-> FALSE]
    ELSE IF IsInstance(e, "DuplicateResourceError") THEN [status |-> 409, unhandled |-> FALSE]
    ELSE [status |-> 500, unhandled |-> TRUE]

\* Context outside Context.context(...): every variable reads None
NoContext == [db |-> FALSE, request |-> 0, event_bus |-> FALSE]

\* Model.__init__(should_audit=True, ...): no model class overrides it and
\* create_audit_log passes no should_audit
should_audit(cls) == TRUE

\* the tasks dispatch_event creates for the events named, oldest first
PutTasks(names, r) ==
    [i \in 1..Len(names) |->
        [kind |-> "put",
         event |-> MkEvent(0, names[i], r, "dict"),
         fire_time |-> 0]]

WritesOf(r) == Cardinality({i \in 1..Len(ormLog) : ormLog[i].r = r})

InitApp ==
    /\ reqPc = [r \in Requests |-> "idle"]
    /\ reqInfo = [r \in Requests |-> [path |-> None]]
    /\ reqTrace = [r \in Requests |-> <<>>]
    /\ reqRaised = [r \in Requests |-> None]
    /\ reqStatus = [r \in Requests |-> 0]
    /\ ctx = [r \in Requests |-> NoContext]
    /\ store = {}
    /\ ormLog = <<>>

\* the bus as serve_forever leaves it: started, no stored events; the
\* application has registered its internal listeners, or has not
InitAppBus ==
    /\ now = 0
    /\ busLogger = TRUE
    /\ running = TRUE
    /\ busPc = "running"
    /\ busQueue = <<>>
    /\ scheduled_events = <<>>
    /\ loopTasks = <<>>
    /\ \E internal \in BOOLEAN :
          busListeners =
              [n \in AllEventNames |->
                  IF internal /\ n = "AuditEvent" THEN <<"audit_listener">>
                  ELSE IF internal /\ n = "UnhandledException"
                       THEN <<"unhandled_exception_listener">>
                  ELSE <<>>]
    /\ notified = <<>>
    /\ nextEventId = 0
    /\ scheduledAt = <<>>
    /\ stored = NoFile
    /\ wakeAt = 0
    /\ fired = <<>>
    /\ runOutcome = "none"
    /\ runs = 1

\* __call__ up to its first await: build the Request, dispatch BeforeRequest
Call(r, path) ==
    /\ reqPc[r] = "idle"
    /\ reqPc' = [reqPc EXCEPT ![r] = "begun"]
    /\ reqInfo' = [reqInfo EXCEPT ![r] = [path |-> path]]
    /\ reqTrace' = [reqTrace EXCEPT ![r] = Append(@, "BeforeRequest")]
    /\ loopTasks' = loopTasks \o PutTasks(<<"BeforeRequest">>, r)
    /\ UNCHANGED <<reqRaised, reqStatus, ctx, store, ormLog>>
    /\ UNCHANGED <<now, busLogger, running, busPc, busQueue, scheduled_events,
                   busListeners, notified, nextEventId, scheduledAt, stored>>
    /\ UNCHANGED busAux
    /\ UNCHANGED othersApp

\* path == "/favicon.ico": send_favicon, dispatch AfterRequest, return
SendFavicon(r) ==
    /\ reqPc[r] = "begun"
    /\ reqInfo[r].path = "favicon"
    /\ reqPc' = [reqPc EXCEPT ![r] = "done"]
    /\ reqStatus' = [reqStatus EXCEPT ![r] = 200]
    /\ reqTrace' = [reqTrace EXCEPT ![r] = @ \o <<"body", "AfterRequest">>]
    /\ loopTasks' = loopTasks \o PutTasks(<<"AfterRequest">>, r)
    /\ UNCHANGED <<reqInfo, reqRaised, ctx, store, ormLog>>
    /\ UNCHANGED <<now, busLogger, running, busPc, busQueue, scheduled_events,
                   busListeners, notified, nextEventId, scheduledAt, stored>>
    /\ UNCHANGED busAux
    /\ UNCHANGED othersApp

\* no router resolves the path: send_404, dispatch AfterRequest, return
Send404(r) ==
    /\ reqPc[r] = "begun"
    /\ reqInfo[r].path = "unrouted"
    /\ reqPc' = [reqPc EXCEPT ![r] = "done"]
    /\ reqStatus' = [reqStatus EXCEPT ![r] = 404]
    /\ reqTrace' = [reqTrace EXCEPT ![r] = @ \o <<"body", "AfterRequest">>]
    /\ loopTasks' = loopTasks \o PutTasks(<<"AfterRequest">>, r)
    /\ UNCHANGED <<reqInfo, reqRaised, ctx, store, ormLog>>
    /\ UNCHANGED <<now, busLogger, running, busPc, busQueue, scheduled_events,
                   busListeners, notified, nextEventId, scheduledAt, stored>>
    /\ UNCHANGED busAux
    /\ UNCHANGED othersApp

\* a router resolves the path: get_x_subdomain, then `async with
\* AsyncDatabase(...)`.  connect() succeeds, and the handler is called inside
\* Context.context(db, request, event_bus, x_subdomain); or connect() raises,
\* outside every try of __call__, and the exception leaves __call__.
Acquire(r, ok) ==
    /\ reqPc[r] = "begun"
    /\ reqInfo[r].path = "routed"
    /\ IF ok
       THEN /\ reqPc' = [reqPc EXCEPT ![r] = "handler"]
            /\ ctx' = [ctx EXCEPT ![r] = [db |-> TRUE, request |-> r, event_bus |-> TRUE]]
            /\ reqTrace' = [reqTrace EXCEPT ![r] = Append(@, "handler")]
       ELSE /\ reqPc' = [reqPc EXCEPT ![r] = "crashed"]
            /\ UNCHANGED <<ctx, reqTrace>>
    /\ UNCHANGED <<reqInfo, reqRaised, reqStatus, store, ormLog>>
    /\ UNCHANGED varsBus
    /\ UNCHANGED othersApp

\* the handler awaits cls(...).create(public): INSERT through Model._execute,
\* which runs the statement on the connection outside any transaction, so
\* the row is committed when the statement returns.  On a unique violation
\* create raises DuplicateResourceError and stores nothing (the handler's
\* raise is HandlerRaise).  After the INSERT, create dispatches
\* AuditEvent if should_audit and not public and the context has a bus.
OrmCreate(r, cls, public, key) ==
    /\ reqPc[r] = "handler"
    /\ WritesOf(r) < MaxWrites
    /\ LET schema == IF public THEN "public" ELSE "tenant"
           row == [schema |-> schema, cls |-> cls, key |-> key]
           audited == should_audit(cls) /\ ~public /\ ctx[r].event_bus
       IN  /\ \A x \in store : <<x.schema, x.cls, x.key>> # <<schema, cls, key>>
           /\ store' = store \cup {[schema |-> schema, cls |-> cls, key |-> key, by |-> r]}
           /\ ormLog' = Append(ormLog, [r |-> r, cls |-> cls, public |-> public,
                                        key |-> key, audited |-> audited])
           /\ IF audited
              THEN loopTasks' = loopTasks \o PutTasks(<<"AuditEvent">>, r)
              ELSE UNCHANGED loopTasks
    /\ UNCHANGED <<reqPc, reqInfo, reqTrace, reqRaised, reqStatus, ctx>>
    /\ UNCHANGED <<now, busLogger, running, busPc, busQueue, scheduled_events,
                   busListeners, notified, nextEventId, scheduledAt, stored>>
    /\ UNCHANGED busAux
    /\ UNCHANGED othersApp

\* the handler returns its response: Context.context resets the variables
\* and __aexit__ disconnects
HandlerReturn(r) ==
    /\ reqPc[r] = "handler"
    /\ reqPc' = [reqPc EXCEPT ![r] = "respond"]
    /\ ctx' = [ctx EXCEPT ![r] = NoContext]
    /\ UNCHANGED <<reqInfo, reqTrace, reqRaised, reqStatus, store, ormLog>>
    /\ UNCHANGED varsBus
    /\ UNCHANGED othersApp

\* the handler raises e: `except Exception as e: await
\* self.handle_exception(e, request, send); return`.  handle_exception
\* sends the response, dispatches UnhandledException before it in the else
\* branch, and dispatches AfterRequest last; then the context is reset and
\* __aexit__ disconnects.
HandlerRaise(r, e) ==
    /\ reqPc[r] = "handler"
    /\ LET h == handle_exception(e)
           names == IF h.unhandled THEN <<"UnhandledException", "AfterRequest">>
                    ELSE <<"AfterRequest">>
       IN  /\ reqStatus' = [reqStatus EXCEPT ![r] = h.status]
           /\ loopTasks' = loopTasks \o PutTasks(names, r)
    /\ reqRaised' = [reqRaised EXCEPT ![r] = e]
    /\ reqTrace' = [reqTrace EXCEPT ![r] = @ \o <<"body", "AfterRequest">>]
    /\ reqPc' = [reqPc EXCEPT ![r] = "done"]
    /\ ctx' = [ctx EXCEPT ![r] = NoContext]
    /\ UNCHANGED <<reqInfo, store, ormLog>>
    /\ UNCHANGED <<now, busLogger, running, busPc, busQueue, scheduled_events,
                   busListeners, notified, nextEventId, scheduledAt, stored>>
    /\ UNCHANGED busAux
    /\ UNCHANGED othersApp

\* send_response(send, response) then dispatch AfterRequest; if sending
\* raises, handle_exception(e) with e no zara error: UnhandledException,
\* send_500, AfterRequest
SendResponse(r, ok) ==
    /\ reqPc[r] = "respond"
    /\ LET h == handle_exception("Exception")
           names == IF ok THEN <<"AfterRequest">>
                    ELSE <<"UnhandledException", "AfterRequest">>
       IN  /\ reqStatus' = [reqStatus EXCEPT ![r] = IF ok THEN 200 ELSE h.status]
           /\ loopTasks' = loopTasks \o PutTasks(names, r)
    /\ reqTrace' = [reqTrace EXCEPT ![r] = @ \o <<"body", "AfterRequest">>]
    /\ reqPc' = [reqPc EXCEPT ![r] = "done"]
    /\ UNCHANGED <<reqInfo, reqRaised, ctx, store, ormLog>>
    /\ UNCHANGED <<now, busLogger, running, busPc, busQueue, scheduled_events,
                   busListeners, notified, nextEventId, scheduledAt, stored>>
    /\ UNCHANGED busAux
    /\ UNCHANGED othersApp

NextApp ==
    \/ \E r \in Requests, path \in PathKinds : Call(r, path)
    \/ \E r \in Requests : SendFavicon(r)
    \/ \E r \in Requests : Send404(r)
    \/ \E r \in Requests, ok \in BOOLEAN : Acquire(r, ok)
    \/ \E r \in Requests, cls \in ModelClasses, public \in BOOLEAN, key \in Keys :
          OrmCreate(r, cls, public, key)
    \/ \E r \in Requests : HandlerReturn(r)
    \/ \E r \in Requests, e \in RaisedKinds : HandlerRaise(r, e)
    \/ \E r \in Requests, ok \in BOOLEAN : SendResponse(r, ok)
    \/ RunTask
    \/ ProcessEvents
    \/ Tick

BootApp == ParkTenant /\ ParkTxn /\ InitAppBus /\ InitApp /\ ParkConn /\ ParkOrm /\ ParkRoute /\ ParkCtx /\ ParkMore

SpecApp == BootApp /\ [][NextApp]_vars

(***************************************************************************)
(* AsyncDatabase.connect: _ensure_schema_exists, SET search_path, and      *)
(* MigrationManager.apply_pending_migrations, one step per awaited         *)
(* statement.  Every statement runs on the connection outside any          *)
(* transaction and is committed when it returns.                           *)
(***************************************************************************)
MaxConnects == 2

Connections == 1..MaxConnects
Tenants == {"t1", "t2"}

\* get_migration_files(): the .sql files of the migrations directory, sorted
MigrationFiles == <<"0001.sql", "0002.sql">>

\* the content of each file
FileContent(file) == IF file = "0001.sql" THEN "create users" ELSE "create posts"

\* parse_sql_statements(content): how many statements the file holds
StatementCount(file) == IF file = "0001.sql" THEN 2 ELSE 1

\* get_migration_hash(file): the digest of the file's bytes
get_migration_hash(file) == <<"sha256", FileContent(file)>>

\* `if migration_hash not in applied_migration_hashes`, with every file
\* taken for pending
PendingAlways(file, applied) == TRUE

\* `if migration_hash not in applied_migration_hashes`
Pending(file, applied) == get_migration_hash(file) \notin applied

\* the loop of apply_pending_migrations from file i on: the index of the
\* next file it applies, Len(MigrationFiles) + 1 if there is none
RECURSIVE NextFile(_, _)
NextFile(i, applied) ==
    IF i > Len(MigrationFiles) THEN i
    ELSE IF Pending(MigrationFiles[i], applied) THEN i
    ELSE NextFile(i + 1, applied)

NoLocals == [found |-> FALSE, applied |-> {}, i |-> 0, j |-> 0, cause |-> None]
NoHist == [began |-> FALSE, atStart |-> {}, executed |-> {}, recorded |-> {}]

InitConn ==
    /\ cPc = [c \in Connections |-> "idle"]
    /\ cTenant = [c \in Connections |-> None]
    /\ cPath = [c \in Connections |-> "public"]
    /\ cLocal = [c \in Connections |-> NoLocals]
    /\ cHist = [c \in Connections |-> NoHist]
    /\ dbSchemas = {"public"}
    /\ databasesRows = {}
    /\ migTables = {}
    /\ migRows = [t \in Tenants |-> {}]
    /\ effects = {}

\* AsyncDatabase(db_name).connect(): asyncpg.connect
Connect(c, tenant) ==
    /\ cPc[c] = "idle"
    /\ cPc' = [cPc EXCEPT ![c] = "ensure"]
    /\ cTenant' = [cTenant EXCEPT ![c] = tenant]
    /\ UNCHANGED <<cPath, cLocal, cHist, dbSchemas, databasesRows, migTables,
                   migRows, effects>>
    /\ UNCHANGED othersConn

\* _ensure_schema_exists: SELECT schema_name FROM information_schema.schemata
EnsureSelect(c) ==
    /\ cPc[c] = "ensure"
    /\ LET found == cTenant[c] \in dbSchemas
       IN  /\ cLocal' = [cLocal EXCEPT ![c].found = found]
           /\ cPc' = [cPc EXCEPT ![c] = IF found THEN "set_path" ELSE "create_schema"]
    /\ UNCHANGED <<cTenant, cPath, cHist, dbSchemas, databasesRows, migTables,
                   migRows, effects>>
    /\ UNCHANGED othersConn

\* `if not result`: CREATE SCHEMA IF NOT EXISTS
CreateSchema(c) ==
    /\ cPc[c] = "create_schema"
    /\ dbSchemas' = dbSchemas \cup {cTenant[c]}
    /\ cPc' = [cPc EXCEPT ![c] = "insert_database"]
    /\ UNCHANGED <<cTenant, cPath, cLocal, cHist, databasesRows, migTables,
                   migRows, effects>>
    /\ UNCHANGED othersConn

\* CREATE TABLE IF NOT EXISTS public.databases, then INSERT INTO
\* public.databases (schema_name), whose primary key is schema_name: the
\* INSERT raises if the row is there, and connect() raises with it
InsertDatabase(c) ==
    /\ cPc[c] = "insert_database"
    /\ IF cTenant[c] \in databasesRows
       THEN /\ cPc' = [cPc EXCEPT ![c] = "failed"]
            /\ cLocal' = [cLocal EXCEPT ![c].cause = "unique_violation"]
            /\ UNCHANGED databasesRows
       ELSE /\ cPc' = [cPc EXCEPT ![c] = "set_path"]
            /\ databasesRows' = databasesRows \cup {cTenant[c]}
            /\ UNCHANGED cLocal
    /\ UNCHANGED <<cTenant, cPath, cHist, dbSchemas, migTables, migRows, effects>>
    /\ UNCHANGED othersConn

\* SET search_path TO db_name
SetSearchPath(c) ==
    /\ cPc[c] = "set_path"
    /\ cPath' = [cPath EXCEPT ![c] = cTenant[c]]
    /\ cPc' = [cPc EXCEPT ![c] = "mig_table"]
    /\ UNCHANGED <<cTenant, cLocal, cHist, dbSchemas, databasesRows, migTables,
                   migRows, effects>>
    /\ UNCHANGED othersConn

\* apply_pending_migrations begins: CREATE TABLE IF NOT EXISTS migrations, in
\* the schema of the connection's search_path
CreateMigrationsTable(c) ==
    /\ cPc[c] = "mig_table"
    /\ migTables' = migTables \cup {cPath[c]}
    /\ cHist' = [cHist EXCEPT ![c].began = TRUE, ![c].atStart = migRows[cPath[c]]]
    /\ cPc' = [cPc EXCEPT ![c] = "mig_select"]
    /\ UNCHANGED <<cTenant, cPath, cLocal, dbSchemas, databasesRows, migRows, effects>>
    /\ UNCHANGED othersConn

\* SELECT migration_hash FROM migrations, then the loop over the files up to
\* the first it applies
SelectApplied(c) ==
    /\ cPc[c] = "mig_select"
    /\ LET applied == migRows[cPath[c]]
           i == NextFile(1, applied)
       IN  /\ cLocal' = [cLocal EXCEPT ![c].applied = applied, ![c].i = i, ![c].j = 1]
           /\ cPc' = [cPc EXCEPT ![c] =
                         IF i > Len(MigrationFiles) THEN "connected" ELSE "statement"]
    /\ UNCHANGED <<cTenant, cPath, cHist, dbSchemas, databasesRows, migTables,
                   migRows, effects>>
    /\ UNCHANGED othersConn

\* apply_migration: await db.connection.execute(statement) for the next
\* statement of the file; if it raises, the exception leaves apply_migration,
\* apply_pending_migrations and connect
ExecuteStatement(c, ok) ==
    /\ cPc[c] = "statement"
    /\ LET file == MigrationFiles[cLocal[c].i]
           j == cLocal[c].j
       IN  IF ok
           THEN /\ effects' = effects \cup
                       {[schema |-> cPath[c], file |-> file, j |-> j, by |-> c]}
                /\ cHist' = [cHist EXCEPT ![c].executed = @ \cup {<<file, j>>}]
                /\ cLocal' = [cLocal EXCEPT ![c].j = j + 1]
                /\ cPc' = [cPc EXCEPT ![c] =
                              IF j = StatementCount(file) THEN "record" ELSE "statement"]
           ELSE /\ cPc' = [cPc EXCEPT ![c] = "failed"]
                /\ cLocal' = [cLocal EXCEPT ![c].cause = "statement"]
                /\ UNCHANGED <<effects, cHist>>
    /\ UNCHANGED <<cTenant, cPath, dbSchemas, databasesRows, migTables, migRows>>
    /\ UNCHANGED othersConn

\* INSERT INTO migrations (migration_hash), a UNIQUE column, then
\* db.connection.commit(), which returns or raises; then the loop goes on to
\* the next file it applies
RecordMigration(c, commits) ==
    /\ cPc[c] = "record"
    /\ LET file == MigrationFiles[cLocal[c].i]
           hash == get_migration_hash(file)
           i == NextFile(cLocal[c].i + 1, cLocal[c].applied)
       IN  IF hash \in migRows[cPath[c]]
           THEN /\ cPc' = [cPc EXCEPT ![c] = "failed"]
                /\ cLocal' = [cLocal EXCEPT ![c].cause = "unique_violation"]
                /\ UNCHANGED <<migRows, cHist>>
           ELSE /\ migRows' = [migRows EXCEPT ![cPath[c]] = @ \cup {hash}]
                /\ cHist' = [cHist EXCEPT ![c].recorded = @ \cup {hash}]
                /\ IF commits
                   THEN /\ cLocal' = [cLocal EXCEPT ![c].i = i, ![c].j = 1]
                        /\ cPc' = [cPc EXCEPT ![c] =
                                      IF i > Len(MigrationFiles) THEN "connected"
                                      ELSE "statement"]
                   ELSE /\ cLocal' = [cLocal EXCEPT ![c].cause = "commit"]
                        /\ cPc' = [cPc EXCEPT ![c] = "failed"]
    /\ UNCHANGED <<cTenant, cPath, dbSchemas, databasesRows, migTables, effects>>
    /\ UNCHANGED othersConn

NextConnect ==
    \/ \E c \in Connections, tenant \in Tenants : Connect(c, tenant)
    \/ \E c \in Connections : EnsureSelect(c)
    \/ \E c \in Connections : CreateSchema(c)
    \/ \E c \in Connections : InsertDatabase(c)
    \/ \E c \in Connections : SetSearchPath(c)
    \/ \E c \in Connections : CreateMigrationsTable(c)
    \/ \E c \in Connections : SelectApplied(c)
    \/ \E c \in Connections, ok \in BOOLEAN : ExecuteStatement(c, ok)
    \/ \E c \in Connections, commits \in BOOLEAN : RecordMigration(c, commits)

BootConnect == ParkTenant /\ ParkTxn /\ ParkBus /\ ParkApp /\ InitConn /\ ParkOrm /\ ParkRoute /\ ParkCtx /\ ParkMore

SpecConnect == BootConnect /\ [][NextConnect]_vars

(***************************************************************************)
(* A Model instance and the table of its class: the Model of               *)
(* database/base.py (create, save, set, get) and the Model of              *)
(* database/orm.py (__init__, __setattr__, create, save, get).  The        *)
(* instance has the fields of FieldNames, in declaration order, and an id. *)
(***************************************************************************)
MaxRows == 2

FieldNames == <<"a", "b">>
FieldSet == {FieldNames[i] : i \in 1..Len(FieldNames)}
FieldValues == {None, "x", "y"}
ModelImpls == {"base", "orm"}
RowIds == 1..MaxRows

\* the declarations of the model class: "a" is DatabaseField(unique=True),
\* "b" is DatabaseField(private=True), both in the class body; "id" comes
\* from a mixin (id_field())
UniqueFields == {"a"}
PrivateFields == {"b"}
MixinFields == {"id"}

NoOp == [op |-> "none", dirty |-> {}, id |-> 0]
Raises(e) == [kind |-> "raise", raised |-> e]

SeqToSet(q) == {q[i] : i \in 1..Len(q)}

\* the orders in which the elements of a set can be iterated
Orders(S) ==
    {q \in [1..Cardinality(S) -> S] : \A i, j \in 1..Cardinality(S) : q[i] = q[j] => i = j}

\* [field for field in fields if field.name in self._changed_fields]:
\* the dirty fields in declaration order
InDeclarationOrder(D) == SelectSeq(FieldNames, LAMBDA f : f \in D)

IndexIn(q, x) == CHOOSE i \in 1..Len(q) : q[i] = x

\* the UPDATE that save() sends: column columns[i] is bound to placeholder
\* $i, whose argument is vals[i]
UpdateRow(row, columns, vals) ==
    [f \in FieldSet |->
        IF f \in SeqToSet(columns) THEN vals[IndexIn(columns, f)] ELSE row[f]]

\* the unique index of the table: a row with these values, stored under an
\* id other than except, would repeat a non-null unique value
Conflict(vals, except) ==
    \E i \in DOMAIN tableRows, f \in UniqueFields :
        i # except /\ vals[f] # None /\ tableRows[i][f] = vals[f]

\* base.Model.as_dict(include_private): every key of _values ("id" is one
\* once it is set), less the keys of PRIVATES[cls] unless include_private.
\* _get_fields() registers a private field in PRIVATES[cls] only if its name
\* is not in cls.__annotations__, that is if a base class declares it.
as_dict(vals, id, include_private) ==
    [f \in (FieldSet \cup (IF id = 0 THEN {} ELSE {"id"}))
              \ (IF include_private THEN {} ELSE PrivateFields \cap MixinFields) |->
        IF f = "id" THEN id ELSE vals[f]]

\* orm.Model.dict(include_private): the DatabaseFields found in
\* self.__class__.__dict__, the class's own body, that are not private or
\* are private with include_private
dict(vals, id, include_private) ==
    [f \in {g \in FieldSet \ MixinFields :
                g \notin PrivateFields \/ include_private} |-> vals[f]]

Projection(vals, id, include_private) ==
    IF modelImpl = "base" THEN as_dict(vals, id, include_private)
    ELSE dict(vals, id, include_private)

\* what the pipeline answers when the handler awaits the call and does not
\* catch: handle_exception's status if the call raised, else 200
PipelineStatus(ret) ==
    IF ret.kind = "raise" THEN handle_exception(ret.raised).status ELSE 200

InitOrm ==
    /\ modelImpl \in ModelImpls
    /\ selfPublic \in BOOLEAN
    /\ values = [f \in FieldSet |-> None]
    /\ instId = 0
    /\ changed_fields = <<>>
    /\ loaded_fields = {}
    /\ tableRows = <<>>
    /\ lastOp = NoOp
    /\ returned = [kind |-> "none"]
    /\ dispatched = {}

\* cls(**kwargs): base.Model.__init__ keeps kwargs as _values and starts
\* changed_fields empty; orm.Model.__init__ sets every keyword through
\* __setattr__ and clears _changed_fields at its end
NewInstance(kwargs) ==
    /\ values' = kwargs
    /\ instId' = 0
    /\ changed_fields' = <<>>
    /\ loaded_fields' = {}
    /\ lastOp' = [op |-> "new", dirty |-> {}, id |-> 0]
    /\ returned' = [kind |-> "none"]
    /\ UNCHANGED <<modelImpl, selfPublic, tableRows, dispatched>>
    /\ UNCHANGED othersOrm

\* cls.get(id=id).  base.Model.get builds the instance from the row and
\* raises ResourceNotFoundError without one; for a Public class the query
\* goes through execute_in_public, whose result is the status string, and
\* cls(**result[0]) raises TypeError.  orm.Model.get records the row's
\* columns as loaded and clears _changed_fields, and returns None without a
\* row.
ModelGet(id) ==
    /\ IF modelImpl = "base" /\ selfPublic
       THEN /\ returned' = Raises("TypeError")
            /\ lastOp' = [op |-> "get_raised", dirty |-> {}, id |-> id]
            /\ UNCHANGED <<values, instId, changed_fields, loaded_fields>>
       ELSE IF id \in DOMAIN tableRows
       THEN /\ values' = tableRows[id]
            /\ instId' = id
            /\ changed_fields' = <<>>
            /\ loaded_fields' = IF modelImpl = "orm" THEN FieldSet \cup {"id"} ELSE {}
            /\ lastOp' = [op |-> "get", dirty |-> {}, id |-> id]
            /\ returned' = [kind |-> "instance"]
       ELSE /\ returned' = IF modelImpl = "base" THEN Raises("ResourceNotFoundError")
                           ELSE [kind |-> "None"]
            /\ lastOp' = [op |-> "get_missing", dirty |-> {}, id |-> id]
            /\ UNCHANGED <<values, instId, changed_fields, loaded_fields>>
    /\ UNCHANGED <<modelImpl, selfPublic, tableRows, dispatched>>
    /\ UNCHANGED othersOrm

\* base.Model.set(**{f: v}) appends f to changed_fields unless it is there;
\* orm.Model.__setattr__(f, v) adds f to _changed_fields
SetField(f, v) ==
    /\ values' = [values EXCEPT ![f] = v]
    /\ changed_fields' = IF f \in SeqToSet(changed_fields) THEN changed_fields
                         ELSE Append(changed_fields, f)
    /\ lastOp' = [op |-> "set", dirty |-> {}, id |-> instId]
    /\ returned' = [kind |-> "none"]
    /\ UNCHANGED <<modelImpl, selfPublic, instId, loaded_fields, tableRows, dispatched>>
    /\ UNCHANGED othersOrm

\* base.Model.create(public): INSERT every field RETURNING id.  A unique
\* violation is re-raised as DuplicateResourceError.  With public=True the
\* statement runs through execute_in_public, whose result is the status
\* string, so taking result[0]["id"] raises TypeError after the row is
\* stored (ValueError from _values.update(result[0]) if every value is None).  Otherwise the id is stored in _values, changed_fields is not
\* touched, and AuditEvent is dispatched if should_audit and not public.
BaseCreate(public) ==
    /\ modelImpl = "base"
    /\ instId = 0
    /\ IF Conflict(values, 0)
       THEN /\ returned' = Raises("DuplicateResourceError")
            /\ lastOp' = [op |-> "insert_failed", dirty |-> SeqToSet(changed_fields),
                          id |-> 0]
            /\ UNCHANGED <<tableRows, instId, dispatched>>
       ELSE /\ Len(tableRows) < MaxRows
            /\ tableRows' = Append(tableRows, values)
            /\ IF public
               THEN /\ returned' = IF \E f \in FieldSet : values[f] # None
                                    THEN Raises("TypeError")
                                    ELSE Raises("ValueError")
                    /\ lastOp' = [op |-> "insert_raised",
                                  dirty |-> SeqToSet(changed_fields), id |-> 0]
                    /\ UNCHANGED <<instId, dispatched>>
               ELSE /\ instId' = Len(tableRows) + 1
                    /\ returned' = [kind |-> "instance"]
                    /\ lastOp' = [op |-> "insert", dirty |-> SeqToSet(changed_fields),
                                  id |-> Len(tableRows) + 1]
                    /\ dispatched' =
                          IF should_audit("User")
                          THEN dispatched \cup {[name |-> "AuditEvent", action_type |-> "create"]}
                          ELSE dispatched
    /\ UNCHANGED <<modelImpl, selfPublic, values, changed_fields, loaded_fields>>
    /\ UNCHANGED othersOrm

\* base.Model.save(): return if changed_fields is empty; otherwise UPDATE
\* the changed columns, each bound to its own value, WHERE id = the
\* instance's id, clear changed_fields and, if should_audit, dispatch
\* AuditEvent.  A unique violation leaves save() at the statement.
BaseSave ==
    /\ modelImpl = "base"
    /\ LET row == UpdateRow(tableRows[instId], changed_fields,
                            [i \in 1..Len(changed_fields) |-> values[changed_fields[i]]])
       IN  IF changed_fields = <<>>
           THEN /\ lastOp' = [op |-> "noop", dirty |-> {}, id |-> instId]
                /\ returned' = [kind |-> "None"]
                /\ UNCHANGED <<tableRows, changed_fields, dispatched>>
           ELSE IF instId \in DOMAIN tableRows /\ Conflict(row, instId)
           THEN /\ lastOp' = [op |-> "update_failed",
                              dirty |-> SeqToSet(changed_fields), id |-> instId]
                /\ returned' = Raises("UniqueViolationError")
                /\ UNCHANGED <<tableRows, changed_fields, dispatched>>
           ELSE /\ tableRows' =
                      IF instId \in DOMAIN tableRows
                      THEN [tableRows EXCEPT ![instId] = row]
                      ELSE tableRows
                /\ changed_fields' = <<>>
                /\ lastOp' = [op |-> "update", dirty |-> SeqToSet(changed_fields),
                              id |-> instId]
                /\ returned' = [kind |-> "None"]
                /\ dispatched' =
                      IF should_audit("User")
                      THEN dispatched \cup {[name |-> "AuditEvent", action_type |-> "update"]}
                      ELSE dispatched
    /\ UNCHANGED <<modelImpl, selfPublic, values, instId, loaded_fields>>
    /\ UNCHANGED othersOrm

\* orm.Model.save(), which create() calls: the instance counts as existing
\* if "id" is loaded or any field is dirty.  Existing: return if nothing is
\* dirty, else UPDATE with the SET list in the iteration order of the set
\* _changed_fields and the arguments in declaration order.  Not existing:
\* INSERT every field RETURNING id and take the id.  Then clear the set.
\* Nothing is caught: a unique violation leaves save() as the driver's
\* UniqueViolationError, and a SET list that names "_allow_private", which
\* is no column, as its UndefinedColumnError.
OrmSave(columns) ==
    /\ modelImpl = "orm"
    /\ columns \in Orders(SeqToSet(changed_fields) \cap FieldSet)
    /\ LET D == SeqToSet(changed_fields)
           existing_entity == "id" \in loaded_fields \/ D # {}
           decl == InDeclarationOrder(D)
           row == UpdateRow(tableRows[instId], columns,
                            [i \in 1..Len(decl) |-> values[decl[i]]])
       IN  IF existing_entity
           THEN IF D = {}
                THEN /\ lastOp' = [op |-> "noop", dirty |-> {}, id |-> instId]
                     /\ returned' = [kind |-> "None"]
                     /\ UNCHANGED <<tableRows, instId, changed_fields>>
                ELSE IF "_allow_private" \in D
                THEN /\ lastOp' = [op |-> "update_failed", dirty |-> D, id |-> instId]
                     /\ returned' = Raises("UndefinedColumnError")
                     /\ UNCHANGED <<tableRows, instId, changed_fields>>
                ELSE IF instId \in DOMAIN tableRows /\ Conflict(row, instId)
                THEN /\ lastOp' = [op |-> "update_failed", dirty |-> D, id |-> instId]
                     /\ returned' = Raises("UniqueViolationError")
                     /\ UNCHANGED <<tableRows, instId, changed_fields>>
                ELSE /\ tableRows' =
                           IF instId \in DOMAIN tableRows
                           THEN [tableRows EXCEPT ![instId] = row]
                           ELSE tableRows
                     /\ changed_fields' = <<>>
                     /\ lastOp' = [op |-> "update", dirty |-> D, id |-> instId]
                     /\ returned' = [kind |-> "instance"]
                     /\ UNCHANGED instId
           ELSE IF Conflict(values, 0)
           THEN /\ lastOp' = [op |-> "insert_failed", dirty |-> D, id |-> 0]
                /\ returned' = Raises("UniqueViolationError")
                /\ UNCHANGED <<tableRows, instId, changed_fields>>
           ELSE /\ Len(tableRows) < MaxRows
                /\ tableRows' = Append(tableRows, values)
                /\ instId' = Len(tableRows) + 1
                /\ changed_fields' = <<>>
                /\ lastOp' = [op |-> "insert", dirty |-> D, id |-> Len(tableRows) + 1]
                /\ returned' = [kind |-> "instance"]
    /\ UNCHANGED <<modelImpl, selfPublic, values, loaded_fields, dispatched>>
    /\ UNCHANGED othersOrm

\* base.Model.first_or_create(logger, a=v): first(throws=False) takes a row
\* of the table with no WHERE clause and returns (instance, False);
\* without a row it creates cls(a=v), with public=True for a Public class,
\* and returns (instance, True).  For a Public class first() reads the
\* status string of execute_in_public: cls(**result[0]) raises TypeError
\* unless the string is "SELECT 0".
BaseFirstOrCreate(v) ==
    /\ modelImpl = "base"
    /\ LET matched == \E i \in DOMAIN tableRows : tableRows[i]["a"] = v
           kwargs == [f \in FieldSet |-> IF f = "a" THEN v ELSE None]
           op(id, inserted) ==
               [op |-> "first_or_create", dirty |-> {}, id |-> id, filters |-> v,
                matched |-> matched, inserted |-> inserted]
       IN  IF tableRows # <<>>
           THEN IF selfPublic
                THEN /\ returned' = Raises("TypeError")
                     /\ lastOp' = op(0, FALSE)
                     /\ UNCHANGED <<values, instId, changed_fields, loaded_fields,
                                    tableRows, dispatched>>
                ELSE /\ \E id \in DOMAIN tableRows :
                            /\ values' = tableRows[id]
                            /\ instId' = id
                            /\ lastOp' = op(id, FALSE)
                     /\ changed_fields' = <<>>
                     /\ loaded_fields' = {}
                     /\ returned' = [kind |-> "pair", created |-> FALSE]
                     /\ UNCHANGED <<tableRows, dispatched>>
           ELSE /\ tableRows' = <<kwargs>>
                /\ values' = kwargs
                /\ changed_fields' = <<>>
                /\ loaded_fields' = {}
                /\ IF selfPublic
                   THEN /\ instId' = 0
                        /\ returned' = Raises("TypeError")
                        /\ lastOp' = op(0, TRUE)
                        /\ UNCHANGED dispatched
                   ELSE /\ instId' = 1
                        /\ returned' = [kind |-> "pair", created |-> TRUE]
                        /\ lastOp' = op(1, TRUE)
                        /\ dispatched' =
                              IF should_audit("User")
                              THEN dispatched \cup {[name |-> "AuditEvent", action_type |-> "create"]}
                              ELSE dispatched
    /\ UNCHANGED <<modelImpl, selfPublic>>
    /\ UNCHANGED othersOrm

\* orm.Model.first_or_create(a=v): result = get(a=v); a Model is returned
\* as it is; otherwise create() is called on cls(), an instance with no
\* field set, and that instance is returned
OrmFirstOrCreate(v) ==
    /\ modelImpl = "orm"
    /\ LET matching == {i \in DOMAIN tableRows : tableRows[i]["a"] = v}
           blank == [f \in FieldSet |-> None]
           op(id, inserted) ==
               [op |-> "first_or_create", dirty |-> {}, id |-> id, filters |-> v,
                matched |-> matching # {}, inserted |-> inserted]
       IN  IF matching # {}
           THEN /\ \E id \in matching :
                       /\ values' = tableRows[id]
                       /\ instId' = id
                       /\ lastOp' = op(id, FALSE)
                /\ loaded_fields' = FieldSet \cup {"id"}
                /\ UNCHANGED tableRows
           ELSE /\ Len(tableRows) < MaxRows
                /\ tableRows' = Append(tableRows, blank)
                /\ values' = blank
                /\ instId' = Len(tableRows) + 1
                /\ loaded_fields' = {}
                /\ lastOp' = op(Len(tableRows) + 1, TRUE)
    /\ changed_fields' = <<>>
    /\ returned' = [kind |-> "instance"]
    /\ UNCHANGED <<modelImpl, selfPublic, dispatched>>
    /\ UNCHANGED othersOrm

\* the projection of the instance: as_dict(include_private) of base.Model,
\* dict(include_private) of orm.Model (json() is dict() serialised).
\* orm.Model.dict assigns self._allow_private, and __setattr__ adds every
\* key but its three bookkeeping names to _changed_fields.
Project(include_private) ==
    /\ returned' = [kind |-> "dict", include_private |-> include_private,
                    value |-> Projection(values, instId, include_private)]
    /\ changed_fields' =
          IF modelImpl = "orm" /\ "_allow_private" \notin SeqToSet(changed_fields)
          THEN Append(changed_fields, "_allow_private")
          ELSE changed_fields
    /\ lastOp' = [op |-> "dict", dirty |-> SeqToSet(changed_fields), id |-> instId]
    /\ UNCHANGED <<modelImpl, selfPublic, values, instId,
                   loaded_fields, tableRows, dispatched>>
    /\ UNCHANGED othersOrm

\* cls(**instance.dict(include_private=True)): the constructor takes the
\* keys of the projection; a field that is not among them keeps its default
Reconstruct ==
    /\ LET d == Projection(values, instId, TRUE)
       IN  /\ values' = [f \in FieldSet |-> IF f \in DOMAIN d THEN d[f] ELSE None]
           /\ instId' = IF "id" \in DOMAIN d THEN d["id"] ELSE 0
    /\ changed_fields' = <<>>
    /\ loaded_fields' = {}
    /\ lastOp' = [op |-> "reconstruct", dirty |-> {}, id |-> instId, orig |-> values]
    /\ returned' = [kind |-> "instance"]
    /\ UNCHANGED <<modelImpl, selfPublic, tableRows, dispatched>>
    /\ UNCHANGED othersOrm

NextOrm ==
    \/ \E kwargs \in [FieldSet -> FieldValues] : NewInstance(kwargs)
    \/ \E id \in RowIds : ModelGet(id)
    \/ \E f \in FieldSet, v \in FieldValues : SetField(f, v)
    \/ \E public \in BOOLEAN : BaseCreate(public)
    \/ BaseSave
    \/ \E columns \in UNION {Orders(S) : S \in SUBSET FieldSet} : OrmSave(columns)
    \/ \E v \in FieldValues \ {None} : BaseFirstOrCreate(v)
    \/ \E v \in FieldValues \ {None} : OrmFirstOrCreate(v)
    \/ \E include_private \in BOOLEAN : Project(include_private)
    \/ Reconstruct

BootOrm == ParkTenant /\ ParkTxn /\ ParkBus /\ ParkApp /\ ParkConn /\ InitOrm /\ ParkRoute /\ ParkCtx /\ ParkMore

SpecOrm == BootOrm /\ [][NextOrm]_vars

(***************************************************************************)
(* Routing: Route.match, Router.add_route, Router.resolve and the loop of  *)
(* ASGIApplication.__call__ over its routers.  A path is the sequence of   *)
(* its segments and whether a trailing slash follows them; a template is a *)
(* route's path, which add_route stores without a trailing slash.          *)
(***************************************************************************)
MaxRouters == 2
MaxRoutes == 2

Methods == {"GET", "POST"}
PathSegments == {"7", "007", "abc", "{id:int}"}
Paths ==
    {[parts |-> p, slash |-> s] :
        p \in {<<"users">>} \cup {<<"users", x>> : x \in PathSegments},
        s \in BOOLEAN}
Templates == {<<"users">>, <<"users", "{id:int}">>, <<"users", "{name:str}">>}

\* route_part[1:-1].split(":") of a segment in braces
ParamOf ==
    [x \in {"{id:int}", "{name:str}"} |->
        IF x = "{id:int}" THEN [name |-> "id", type |-> "int"]
        ELSE [name |-> "name", type |-> "str"]]

\* int(path_part) for the segments it accepts; it raises ValueError for
\* the others
IntOf == [x \in {"7", "007"} |-> 7]

\* Route.match(path): None, or the params.  Both paths are compared
\* stripped of their slashes; equal texts match with no params; otherwise
\* the segments are compared pairwise.
match(route_path, path) ==
    IF route_path = path.parts THEN [matched |-> TRUE, params |-> <<>>]
    ELSE IF Len(route_path) # Len(path.parts) THEN [matched |-> FALSE]
    ELSE IF \E i \in 1..Len(route_path) :
                IF route_path[i] \in DOMAIN ParamOf
                THEN /\ ParamOf[route_path[i]].type = "int"
                     /\ path.parts[i] \notin DOMAIN IntOf
                ELSE route_path[i] # path.parts[i]
    THEN [matched |-> FALSE]
    ELSE [matched |-> TRUE,
          params |->
              [n \in {ParamOf[route_path[i]].name :
                         i \in {j \in 1..Len(route_path) : route_path[j] \in DOMAIN ParamOf}} |->
                  LET i == CHOOSE j \in 1..Len(route_path) :
                               /\ route_path[j] \in DOMAIN ParamOf
                               /\ ParamOf[route_path[j]].name = n
                  IN  IF ParamOf[route_path[i]].type = "int" THEN IntOf[path.parts[i]]
                      ELSE path.parts[i]]]

\* Router.resolve(method, path): the handler and params of the first route
\* of the router with that method whose match is not None, else (None, {})
resolve(routes, method, path) ==
    LET hits == {i \in 1..Len(routes) :
                    /\ routes[i].method = method
                    /\ match(routes[i].path, path).matched}
    IN  IF hits = {} THEN [handler |-> 0, params |-> <<>>, path |-> <<>>]
        ELSE LET i == CHOOSE j \in hits : \A k \in hits : j <= k
             IN  [handler |-> routes[i].handler,
                  params |-> match(routes[i].path, path).params,
                  path |-> routes[i].path]

\* the routes of the application: (i, j) is the j-th route of the i-th router
RouteIndex == UNION {{<<i, j>> : j \in 1..Len(routers[i])} : i \in 1..MaxRouters}

InitRoute ==
    /\ routers = [i \in 1..MaxRouters |-> <<>>]
    /\ resolution = [handler |-> 0]

\* router.add_route(method, path, handler) on the i-th router of the
\* application, while the module that builds the application is run: before
\* any request.  Handlers are numbered in the order they are added.
AddRoute(i, method, path) ==
    /\ "method" \notin DOMAIN resolution
    /\ Cardinality(RouteIndex) < MaxRoutes
    /\ routers' = [routers EXCEPT ![i] =
                      Append(@, [method |-> method, path |-> path,
                                 handler |-> Cardinality(RouteIndex) + 1])]
    /\ UNCHANGED resolution
    /\ UNCHANGED <<varsTenant, varsTxn, varsBus, varsApp, varsConn, varsOrm, varsCtx, varsMore>>

\* ASGIApplication.__call__: the first router, in self.routers order, whose
\* resolve returns a handler has that handler invoked with the params;
\* with none, send_404
Resolve(method, path) ==
    /\ LET hits == {i \in 1..MaxRouters : resolve(routers[i], method, path).handler # 0}
       IN  resolution' =
               [method |-> method, request_path |-> path] @@
               (IF hits = {} THEN [handler |-> 0, params |-> <<>>, path |-> <<>>]
                ELSE resolve(routers[CHOOSE j \in hits : \A k \in hits : j <= k],
                             method, path))
    /\ UNCHANGED routers
    /\ UNCHANGED <<varsTenant, varsTxn, varsBus, varsApp, varsConn, varsOrm, varsCtx, varsMore>>

NextRoute ==
    \/ \E i \in 1..MaxRouters, method \in Methods, path \in Templates :
           AddRoute(i, method, path)
    \/ \E method \in Methods, path \in Paths : Resolve(method, path)

BootRoute ==
    ParkTenant /\ ParkTxn /\ ParkBus /\ ParkApp /\ ParkConn /\ ParkOrm /\ ParkCtx
        /\ InitRoute /\ ParkMore

SpecRoute == BootRoute /\ [][NextRoute]_vars

(***************************************************************************)
(* The request context: the ContextVars of utilities/context.py, the       *)
(* scope Context.context(...), and the task per connection of              *)
(* ASGIServer.serve_forever.  Context 0 is the context serve_forever runs  *)
(* in; a task has the context create_task copied for it.  0 stands for     *)
(* None; the objects of task t are numbered 10 * t + k.                    *)
(***************************************************************************)
MaxTasks == 3
MaxDepth == 2

Tasks == 1..MaxTasks
CtxNames == {"db", "request", "event_bus", "customer", "user"}

\* the arguments of the scope a task enters at depth k: at depth 0 those of
\* ASGIApplication.__call__ (db, request, self._event_bus, x_subdomain, and
\* user left at None), deeper those of a scope the handler opens itself
ScopeValues(t, k) ==
    [v \in CtxNames |->
        IF v = "event_bus" THEN 1
        ELSE IF v = "user" /\ k = 0 THEN 0
        ELSE 10 * t + k]

\* every task running in the context of serve_forever
CtxKeyShared(t) == 0

\* loop.create_task(...) runs the coroutine in a context of its own
CtxKey(t) == t

\* Context.get_db() and the other getters: var.get(None) in the context of
\* the running task
CurrentContext(t) == taskContext[CtxKey(t)]

\* resets that follow the yield with no finally: skipped when the body raises
FinallyRunsOnReturn(raised) == ~raised

\* the resets of Context.context stand in a finally clause
FinallyRuns(raised) == TRUE

InitCtx ==
    /\ taskContext = [c \in 0..MaxTasks |-> [v \in CtxNames |-> 0]]
    /\ tokens = [t \in Tasks |-> <<>>]
    /\ taskPc = [t \in Tasks |-> "idle"]
    /\ lastExit = [task |-> 0, raised |-> FALSE]

\* serve_forever: self.loop.create_task(self.serve_one_request(client_socket))
CreateTask(t) ==
    /\ taskPc[t] = "idle"
    /\ taskPc' = [taskPc EXCEPT ![t] = "running"]
    /\ taskContext' = [taskContext EXCEPT ![CtxKey(t)] = taskContext[0]]
    /\ UNCHANGED <<tokens, lastExit>>
    /\ UNCHANGED <<varsTenant, varsTxn, varsBus, varsApp, varsConn, varsOrm, varsRoute, varsMore>>

\* with Context.context(db, request, event_bus, customer, user): each
\* var.set(value) returns the token that holds the value it replaces
EnterScope(t) ==
    /\ taskPc[t] = "running"
    /\ Len(tokens[t]) < MaxDepth
    /\ tokens' = [tokens EXCEPT ![t] = Append(@, CurrentContext(t))]
    /\ taskContext' = [taskContext EXCEPT ![CtxKey(t)] = ScopeValues(t, Len(tokens[t]))]
    /\ UNCHANGED <<taskPc, lastExit>>
    /\ UNCHANGED <<varsTenant, varsTxn, varsBus, varsApp, varsConn, varsOrm, varsRoute, varsMore>>

\* the body of the scope completes or raises: the finally clause resets
\* each var with its token
ExitScope(t, raised) ==
    /\ taskPc[t] = "running"
    /\ tokens[t] # <<>>
    /\ tokens' = [tokens EXCEPT ![t] = SubSeq(@, 1, Len(@) - 1)]
    /\ taskContext' =
          IF FinallyRuns(raised)
          THEN [taskContext EXCEPT ![CtxKey(t)] = tokens[t][Len(tokens[t])]]
          ELSE taskContext
    /\ lastExit' = [task |-> t, raised |-> raised]
    /\ UNCHANGED taskPc
    /\ UNCHANGED <<varsTenant, varsTxn, varsBus, varsApp, varsConn, varsOrm, varsRoute, varsMore>>

\* serve_one_request returns and the task ends
FinishTask(t) ==
    /\ taskPc[t] = "running"
    /\ tokens[t] = <<>>
    /\ taskPc' = [taskPc EXCEPT ![t] = "done"]
    /\ UNCHANGED <<taskContext, tokens, lastExit>>
    /\ UNCHANGED <<varsTenant, varsTxn, varsBus, varsApp, varsConn, varsOrm, varsRoute, varsMore>>

NextCtx ==
    \/ \E t \in Tasks : CreateTask(t)
    \/ \E t \in Tasks : EnterScope(t)
    \/ \E t \in Tasks, raised \in BOOLEAN : ExitScope(t, raised)
    \/ \E t \in Tasks : FinishTask(t)

BootCtx ==
    ParkTenant /\ ParkTxn /\ ParkBus /\ ParkApp /\ ParkConn /\ ParkOrm /\ ParkRoute
        /\ InitCtx /\ ParkMore

SpecCtx == BootCtx /\ [][NextCtx]_vars

(***************************************************************************)
(* The rate limiter (security/rate_limit.py): a sliding window of admitted *)
(* timestamps per key, and the wrapper of one route, which consults the    *)
(* route's, the router's and the application's limiter in turn.            *)
(***************************************************************************)
MaxRate == 2
MaxPeriod == 2
MaxRlTime == 2
MaxRlCalls == 3
\* scope["path"] of the requests that reach the wrapper
RlKeys == {"/u/1", "/u/2"}
\* the keys of `limits`, in the order the wrapper consults them
RlLevels == <<"route", "router", "app">>
RlLevelSet == {RlLevels[i] : i \in 1..Len(RlLevels)}

\* `timestamp > window_start`: the condition of the list comprehension
InWindowClosed(timestamp, window_start) == timestamp >= window_start
InWindow(timestamp, window_start) == timestamp > window_start

\* RateLimiter.is_allowed at current_time, on requests[key]: whether the
\* request is admitted, and requests[key] afterwards
is_allowed(requests, limit, current_time) ==
    LET window_start == current_time - limit.period
        kept == SelectSeq(requests, LAMBDA ts : InWindow(ts, window_start))
    IN  IF Len(kept) < limit.rate
        THEN [allowed |-> TRUE, requests |-> Append(kept, current_time)]
        ELSE [allowed |-> FALSE, requests |-> kept]

\* the if/elif chain of the wrapper from limiter i on: the limiters that
\* admitted the request, up to the first that refuses it, and each
\* limiter's requests afterwards
RECURSIVE Consult(_, _, _)
Consult(i, key, reqs) ==
    IF i > Len(RlLevels) THEN [allowed |-> {}, requests |-> reqs]
    ELSE LET L == RlLevels[i]
             r == is_allowed(reqs[L][key], rlLimits[L], rlNow)
             reqs1 == [reqs EXCEPT ![L][key] = r.requests]
         IN  IF ~r.allowed THEN [allowed |-> {}, requests |-> reqs1]
             ELSE LET rest == Consult(i + 1, key, reqs1)
                  IN  [allowed |-> {L} \cup rest.allowed, requests |-> rest.requests]

\* apply_rate_limit builds one RateLimiter per key of `limits`
InitRate ==
    /\ rlLimits \in [RlLevelSet -> [rate : 1..MaxRate, period : 1..MaxPeriod]]
    /\ rlNow = 0
    /\ rlRequests = [L \in RlLevelSet |-> [k \in RlKeys |-> <<>>]]
    /\ rlLog = <<>>

\* wrapper(request) for a request whose scope["path"] is key: 429 when a
\* limiter refuses, else the wrapped handler is awaited
RateRequest(key) ==
    /\ Len(rlLog) < MaxRlCalls
    /\ LET c == Consult(1, key, rlRequests)
           ok == c.allowed = RlLevelSet
       IN  /\ rlRequests' = c.requests
           /\ rlLog' = Append(rlLog, [key |-> key, at |-> rlNow, allowed |-> c.allowed,
                                      status |-> IF ok THEN 200 ELSE 429,
                                      called |-> ok])
    /\ UNCHANGED <<rlLimits, rlNow>>
    /\ UNCHANGED othersRate

\* time.time() advances between two requests
RateTick ==
    /\ rlNow < MaxRlTime
    /\ rlNow' = rlNow + 1
    /\ UNCHANGED <<rlLimits, rlRequests, rlLog>>
    /\ UNCHANGED othersRate

NextRate ==
    \/ \E key \in RlKeys : RateRequest(key)
    \/ RateTick

BootRate == ParkCore /\ InitRate /\ ParkAuth /\ ParkCookie /\ ParkId /\ ParkLegacy /\ ParkGen

SpecRate == BootRate /\ [][NextRate]_vars

(***************************************************************************)
(* auth_required (login/auth_required.py) around a handler, called as      *)
(* wrapper(scope, receive, send), and verify_jwt (login/jwt.py).           *)
(***************************************************************************)
Permissions == {"read", "write"}
Roles == {"admin", "user"}
SECRET_KEY == "your-secret-key"
\* a token: the number of its dot-separated parts, the payload its second
\* part encodes and the key its signature was made with
Tokens ==
    [parts : {2, 3}, key : {SECRET_KEY, "other"},
     payload : [permissions : SUBSET Permissions, roles : SUBSET Roles]]
\* the value of the b"authorization" entry of scope["headers"]: absent, or
\* bytes that decode or do not, with the text before the token
AuthHeaders ==
    {[present |-> FALSE]}
        \cup [present : {TRUE}, decodes : BOOLEAN, prefix : {"Bearer ", "Basic "},
              token : Tokens]

\* verify_jwt(token): None unless the token has three parts and its
\* signature is the one SECRET_KEY gives; else the decoded payload
verify_jwt(token) ==
    IF token.parts # 3 THEN [isNone |-> TRUE]
    ELSE IF token.key # SECRET_KEY THEN [isNone |-> TRUE]
    ELSE [isNone |-> FALSE, payload |-> token.payload]

\* wrapper(scope, receive, send): the status sent, whether func was awaited,
\* and the exception that left the wrapper
wrapper(header, permissions, roles) ==
    LET Forbidden == [status |-> 403, invoked |-> FALSE, raised |-> None]
    IN  IF ~header.present THEN Forbidden
        ELSE IF ~header.decodes
        THEN [status |-> 0, invoked |-> FALSE, raised |-> "UnicodeDecodeError"]
        ELSE IF header.prefix # "Bearer " THEN Forbidden
        ELSE LET jwt_payload == verify_jwt(header.token)
             IN  IF jwt_payload.isNone THEN Forbidden
                 ELSE IF permissions # {}
                          /\ ~(\A p \in permissions :
                                  p \in jwt_payload.payload.permissions)
                 THEN Forbidden
                 ELSE IF roles # {}
                          /\ ~(\E r \in roles : r \in jwt_payload.payload.roles)
                 THEN Forbidden
                 ELSE [status |-> 200, invoked |-> TRUE, raised |-> None]

\* auth_required(permissions, roles)(func); None and [] are the empty set
InitAuth ==
    /\ authRequired \in [permissions : SUBSET Permissions, roles : SUBSET Roles]
    /\ authCall = [op |-> "none"]

\* one request reaches the wrapper
AuthCall(header) ==
    /\ authCall' = [op |-> "call", header |-> header,
                    result |-> wrapper(header, authRequired.permissions,
                                       authRequired.roles)]
    /\ UNCHANGED authRequired
    /\ UNCHANGED othersAuth

NextAuth == \E header \in AuthHeaders : AuthCall(header)

BootAuth == ParkCore /\ ParkRate /\ InitAuth /\ ParkCookie /\ ParkId /\ ParkLegacy /\ ParkGen

SpecAuth == BootAuth /\ [][NextAuth]_vars

(***************************************************************************)
(* The cookies of a request (application.py): Request.set_cookie, and the  *)
(* set-cookie headers the session (asgi/session.py) adds to the response.  *)
(* Cookie texts are sequences of characters.                               *)
(***************************************************************************)
MaxCookieCalls == 3
CookieNames == {<<"s", "i", "d">>, <<"i", "d">>}
CookieValues == {<<"1">>, <<"2">>}
\* "; Path={path}; HttpOnly={http_only}; Secure={secure}; SameSite={same_site}"
\* with the default arguments of set_cookie
CookieAttributes ==
    <<";", " ", "P", "a", "t", "h", "=", "/", ";", " ", "H", "t", "t",
      "p", "O", "n", "l", "y", "=", "T", "r", "u", "e", ";", " ", "S",
      "e", "c", "u", "r", "e", "=", "T", "r", "u", "e", ";", " ", "S",
      "a", "m", "e", "S", "i", "t", "e", "=", "S", "t", "r", "i", "c",
      "t">>

\* `sub in text` on str
Contains(sub, text) ==
    \E i \in 1..(Len(text) - Len(sub) + 1) : SubSeq(text, i, i + Len(sub) - 1) = sub

\* Request.set_cookie(name, value): self.cookies afterwards
set_cookie(cookies, name, value) ==
    IF \E i \in 1..Len(cookies) : Contains(name \o <<"=">>, cookies[i])
    THEN cookies
    ELSE Append(cookies, name \o <<"=">> \o value \o CookieAttributes)

\* Request.__init__: set_cookie for each cookie of the Cookie header; here
\* the header is absent or names one cookie
InitCookie ==
    /\ \E sent \in {<<>>} \cup {<<[name |-> n, value |-> v]>> :
                                   n \in CookieNames, v \in CookieValues} :
          ckCookies = IF sent = <<>> THEN <<>>
                      ELSE set_cookie(<<>>, sent[1].name, sent[1].value)
    /\ ckCalls = <<>>
    /\ ckPc = "handler"
    /\ ckHeaders = <<>>

\* the handler calls request.set_cookie(name, value)
SetCookie(name, value) ==
    /\ ckPc = "handler"
    /\ Len(ckCalls) < MaxCookieCalls
    /\ ckCookies' = set_cookie(ckCookies, name, value)
    /\ ckCalls' = Append(ckCalls, [name |-> name, value |-> value])
    /\ UNCHANGED <<ckPc, ckHeaders>>
    /\ UNCHANGED othersCookie

\* the handler returns: send_response(send, response, set_cookies=
\* request.cookies or []), and append_headers adds one set-cookie header per
\* entry of set_cookies
CookieReturn ==
    /\ ckPc = "handler"
    /\ ckPc' = "sent"
    /\ ckHeaders' = ckCookies
    /\ UNCHANGED <<ckCookies, ckCalls>>
    /\ UNCHANGED othersCookie

\* the handler raises: handle_exception sends its response without
\* set_cookies
CookieRaise ==
    /\ ckPc = "handler"
    /\ ckPc' = "raised"
    /\ ckHeaders' = <<>>
    /\ UNCHANGED <<ckCookies, ckCalls>>
    /\ UNCHANGED othersCookie

NextCookie ==
    \/ \E name \in CookieNames, value \in CookieValues : SetCookie(name, value)
    \/ CookieReturn
    \/ CookieRaise

BootCookie == ParkCore /\ ParkRate /\ ParkAuth /\ InitCookie /\ ParkId /\ ParkLegacy /\ ParkGen

SpecCookie == BootCookie /\ [][NextCookie]_vars

(***************************************************************************)
(* Generated ids (utilities/id57.py): the Base57 text of the millisecond   *)
(* timestamp followed by the Base57 text of a random UUID.  Texts are      *)
(* sequences of characters; timestamps and UUID integers are kept small.   *)
(***************************************************************************)
\* the millisecond clock runs from MinMillis to MaxMillis
MinMillis == 45
MaxMillis == 58
MaxIds == 2
UuidInts == {0, 56, 57}
BASE57_ALPHABET ==
    <<"A", "B", "C", "D", "E", "F", "G", "H", "J", "K", "L", "M", "N",
      "P", "Q", "R", "S", "T", "U", "V", "W", "X", "Y", "Z", "a", "b",
      "c", "d", "e", "f", "g", "h", "i", "j", "k", "m", "n", "o", "p",
      "q", "r", "s", "t", "u", "v", "w", "x", "y", "z", "2", "3", "4",
      "5", "6", "7", "8", "9">>
\* the characters of the alphabet in code point order, which is the order
\* str comparison uses
CodePointOrder ==
    <<"2", "3", "4", "5", "6", "7", "8", "9", "A", "B", "C", "D", "E",
      "F", "G", "H", "J", "K", "L", "M", "N", "P", "Q", "R", "S", "T",
      "U", "V", "W", "X", "Y", "Z", "a", "b", "c", "d", "e", "f", "g",
      "h", "i", "j", "k", "m", "n", "o", "p", "q", "r", "s", "t", "u",
      "v", "w", "x", "y", "z">>

ord(c) == CHOOSE i \in 1..Len(CodePointOrder) : CodePointOrder[i] = c

\* the while loop of base57_encode: the digits of num, most significant first
RECURSIVE Base57Digits(_)
Base57Digits(num) ==
    IF num = 0 THEN <<>>
    ELSE Base57Digits(num \div Len(BASE57_ALPHABET))
             \o <<BASE57_ALPHABET[(num % Len(BASE57_ALPHABET)) + 1]>>

base57_encode(num) ==
    IF num = 0 THEN <<BASE57_ALPHABET[1]>> ELSE Base57Digits(num)

\* a < b on str
RECURSIVE StrLess(_, _)
StrLess(a, b) ==
    IF b = <<>> THEN FALSE
    ELSE IF a = <<>> THEN TRUE
    ELSE IF Head(a) # Head(b) THEN ord(Head(a)) < ord(Head(b))
    ELSE StrLess(Tail(a), Tail(b))

InitId ==
    /\ idNow = MinMillis
    /\ idLog = <<>>

\* generate_lexicographical_uuid() when uuid.uuid4().int is uuid_int
GenerateId(uuid_int) ==
    /\ Len(idLog) < MaxIds
    /\ idLog' = Append(idLog,
                       [timestamp |-> idNow, uuid |-> uuid_int,
                        id |-> base57_encode(idNow) \o base57_encode(uuid_int)])
    /\ UNCHANGED idNow
    /\ UNCHANGED othersId

\* a millisecond passes
IdTick ==
    /\ idNow < MaxMillis
    /\ idNow' = idNow + 1
    /\ UNCHANGED idLog
    /\ UNCHANGED othersId

NextId ==
    \/ \E uuid_int \in UuidInts : GenerateId(uuid_int)
    \/ IdTick

BootId == ParkCore /\ ParkRate /\ ParkAuth /\ ParkCookie /\ InitId /\ ParkLegacy /\ ParkGen

SpecId == BootId /\ [][NextId]_vars

(***************************************************************************)
(* The EventBus of server/events.py: emit, the process_events task and     *)
(* stop(save_function).  The code between two awaits runs without          *)
(* interleaving; a listener's handle_event may suspend or not.             *)
(***************************************************************************)
MaxLegacyEvents == 4

\* process_events from the test of its while loop to its next suspension,
\* with q events queued, u unfinished and s scheduled: the loop ends when the
\* shutdown event is set; else the due scheduled events are emitted, k events
\* are handled without suspending, and the task suspends in the handling of
\* the next event or, the queue being empty, in wait_for(self.queue.get())
FromTop(q, u, s) ==
    IF lgShutdown THEN {[pc |-> "exited", q |-> q, u |-> u, s |-> s]}
    ELSE UNION {
           {IF k = q + due
            THEN [pc |-> "getting", q |-> 0, u |-> u + due - k, s |-> s - due]
            ELSE [pc |-> "handling", q |-> q + due - k - 1, u |-> u + due - k,
                  s |-> s - due] : k \in 0..(q + due)} : due \in 0..s}

\* after self.queue.get() returned an event: the listeners suspend, or they
\* do not and task_done() and the next turn of the loop follow
AfterGet(q, u, s) ==
    {[pc |-> "handling", q |-> q, u |-> u, s |-> s]} \cup FromTop(q, u - 1, s)

ProcGoes(out) ==
    /\ lgProc' = out.pc
    /\ lgQueue' = out.q
    /\ lgUnfinished' = out.u
    /\ lgScheduled' = out.s
    /\ UNCHANGED <<lgShutdown, lgStop, lgSaved>>
    /\ UNCHANGED othersLegacy

InitLegacy ==
    /\ lgQueue = 0
    /\ lgUnfinished = 0
    /\ lgScheduled = 0
    /\ lgShutdown = FALSE
    /\ lgProc = "none"
    /\ lgStop = "none"
    /\ lgSaved = -1

\* start(): asyncio.create_task(self.process_events())
LegacyStart ==
    /\ lgProc = "none"
    /\ lgStop = "none"
    /\ lgProc' = "created"
    /\ UNCHANGED <<lgQueue, lgUnfinished, lgScheduled, lgShutdown, lgStop, lgSaved>>
    /\ UNCHANGED othersLegacy

\* emit(event), by a caller that runs before stop() is called
LegacyEmit ==
    /\ lgStop = "none"
    /\ lgUnfinished + lgScheduled < MaxLegacyEvents
    /\ lgQueue' = lgQueue + 1
    /\ lgUnfinished' = lgUnfinished + 1
    /\ UNCHANGED <<lgScheduled, lgShutdown, lgProc, lgStop, lgSaved>>
    /\ UNCHANGED othersLegacy

\* schedule_event(event)
LegacySchedule ==
    /\ lgStop = "none"
    /\ lgUnfinished + lgScheduled < MaxLegacyEvents
    /\ lgScheduled' = lgScheduled + 1
    /\ UNCHANGED <<lgQueue, lgUnfinished, lgShutdown, lgProc, lgStop, lgSaved>>
    /\ UNCHANGED othersLegacy

\* the task created by start() runs for the first time
ProcRun ==
    /\ lgProc = "created"
    /\ \E out \in FromTop(lgQueue, lgUnfinished, lgScheduled) : ProcGoes(out)

\* the task resumes from wait_for(self.queue.get(), timeout=0.05): with an
\* event, or with TimeoutError and `continue`
ProcWake ==
    /\ lgProc = "getting"
    /\ \E out \in IF lgQueue > 0
                  THEN AfterGet(lgQueue - 1, lgUnfinished, lgScheduled)
                  ELSE FromTop(lgQueue, lgUnfinished, lgScheduled) :
          ProcGoes(out)

\* the listeners of the event in hand have finished: self.queue.task_done()
\* and the next turn of the loop
ProcDone ==
    /\ lgProc = "handling"
    /\ \E out \in FromTop(lgQueue, lgUnfinished - 1, lgScheduled) : ProcGoes(out)

\* stop(save_function), on a started bus, up to its first suspension: join()
\* returns at once
\* when nothing is unfinished, and save_scheduled_events follows
LegacyStop ==
    /\ lgStop = "none"
    /\ lgProc # "none"
    /\ lgShutdown' = TRUE
    /\ IF lgUnfinished = 0
       THEN lgStop' = "returned" /\ lgSaved' = lgScheduled
       ELSE lgStop' = "joining" /\ UNCHANGED lgSaved
    /\ UNCHANGED <<lgQueue, lgUnfinished, lgScheduled, lgProc>>
    /\ UNCHANGED othersLegacy

\* join() returns once task_done() has brought the count to zero
LegacyJoined ==
    /\ lgStop = "joining"
    /\ lgUnfinished = 0
    /\ lgStop' = "returned"
    /\ lgSaved' = lgScheduled
    /\ UNCHANGED <<lgQueue, lgUnfinished, lgScheduled, lgShutdown, lgProc>>
    /\ UNCHANGED othersLegacy

ProcStep == ProcRun \/ ProcWake \/ ProcDone

NextLegacy ==
    \/ LegacyStart
    \/ LegacyEmit
    \/ LegacySchedule
    \/ ProcStep
    \/ LegacyStop
    \/ LegacyJoined

BootLegacy == ParkCore /\ ParkRate /\ ParkAuth /\ ParkCookie /\ ParkId /\ InitLegacy /\ ParkGen

SpecLegacy == BootLegacy /\ [][NextLegacy]_vars

\* the event loop runs every task that is ready
SpecLegacyLive == SpecLegacy /\ WF_vars(ProcStep) /\ WF_vars(LegacyJoined)

(***************************************************************************)
(* The migration generator (migration_generator.py) for one entity class   *)
(* with table "t": the desired schema read from the class, the migration   *)
(* files, the cumulative schema replayed from them and the operations of   *)
(* the next migration.  An SQL text is a sequence of words.                *)
(***************************************************************************)
MaxMigrations == 2
MgTable == "t"
\* the fields of the class in declaration order
MgFieldOrder == <<"f", "g">>
\* DatabaseField(data_type=..., nullable=..., unique=..., default=...)
MgFields ==
    [data_type : {"str", "int", "bytes"}, nullable : BOOLEAN, unique : BOOLEAN,
     default : {None, "x"}]
SQL_TYPES == {"VARCHAR", "INTEGER", "FLOAT", "BOOLEAN", "TIMESTAMP", "TEXT"}

\* DatabaseField.data_type: the name of the SQL type
data_type(field) ==
    CASE field.data_type = "str" -> "VARCHAR"
      [] field.data_type = "int" -> "INTEGER"
      [] OTHER -> "TEXT"

\* Model._get_field_type tests `field.data_type is str`, `is int`, ... on the
\* value of the data_type property, which is a type name and none of the
\* type objects
get_field_type(field) ==
    LET t == data_type(field)
    IN  IF t = "<class 'str'>" THEN "VARCHAR(255)"
        ELSE IF t = "<class 'int'>" THEN "INTEGER"
        ELSE "TEXT"

\* Model._get_field_params for a field that is no primary key
get_field_params(field) ==
    (IF field.nullable THEN <<>> ELSE <<"NOT NULL">>)
        \o (IF field.unique THEN <<"UNIQUE">> ELSE <<>>)

\* the fields of models that are declared, in declaration order
DeclaredOrder(models) ==
    SelectSeq(MgFieldOrder, LAMBDA n : n \in DOMAIN models)

\* Model._get_table_sql: one line per field
get_table_sql(models) ==
    LET names == DeclaredOrder(models)
    IN  [kind |-> "CREATE TABLE", table |-> MgTable,
         columns |-> [i \in 1..Len(names) |->
                         <<names[i], get_field_type(models[names[i]])>>
                             \o get_field_params(models[names[i]])]]

\* an ALTER TABLE statement of add_column, change_type, add_prop, drop_prop
AlterTable(action, column, rest) ==
    [kind |-> "ALTER TABLE", table |-> MgTable, action |-> action,
     column |-> column, rest |-> rest]

HasWord(txt, w) == \E i \in 1..Len(txt) : txt[i] = w

get_type_from_sql(txt) ==
    IF HasWord(txt, "VARCHAR") THEN "VARCHAR"
    ELSE IF HasWord(txt, "INTEGER") THEN "INTEGER"
    ELSE IF HasWord(txt, "FLOAT") THEN "FLOAT"
    ELSE IF HasWord(txt, "BOOLEAN") THEN "BOOLEAN"
    ELSE IF HasWord(txt, "TIMESTAMP") THEN "TIMESTAMP"
    ELSE "TEXT"

\* get_model_schema: the desired schema of the class
get_model_schema(models) ==
    [n \in DOMAIN models |->
        [type |-> data_type(models[n]), primary_key |-> FALSE,
         nullable |-> models[n].nullable, default |-> models[n].default,
         unique |-> models[n].unique, relation |-> FALSE, enum |-> None]]

get_current_state(models) == (MgTable :> get_model_schema(models))

\* dict.get(key, default) on a column's entry
Get(info, key, default) == IF key \in DOMAIN info THEN info[key] ELSE default

\* apply_operations for one operation: CREATE TABLE rebuilds the table from
\* the column lines, ADD COLUMN and DROP COLUMN change one column, any other
\* ALTER TABLE statement leaves the state as it is
apply_operation(state, op) ==
    IF op.kind = "CREATE TABLE"
    THEN (op.table :>
            [n \in {op.columns[i][1] : i \in 1..Len(op.columns)} |->
                LET txt == op.columns[CHOOSE i \in 1..Len(op.columns) :
                                          op.columns[i][1] = n]
                IN  [type |-> get_type_from_sql(txt),
                     primary_key |-> HasWord(txt, "PRIMARY KEY"),
                     nullable |-> ~HasWord(txt, "NOT NULL"),
                     default |-> None,
                     unique |-> HasWord(txt, "UNIQUE")]]) @@ state
    ELSE IF op.action = "ADD COLUMN"
    THEN [state EXCEPT ![op.table] = (op.column :> [type |-> op.rest[1]]) @@ @]
    ELSE IF op.action = "DROP COLUMN"
    THEN [state EXCEPT ![op.table] =
              [n \in DOMAIN @ \ {op.column} |-> @[n]]]
    ELSE state

RECURSIVE apply_operations(_, _)
apply_operations(state, operations) ==
    IF operations = <<>> THEN state
    ELSE apply_operations(apply_operation(state, Head(operations)),
                          Tail(operations))

\* get_cumulative_state: the upgrade operations of every file, oldest first
RECURSIVE get_cumulative_state(_)
get_cumulative_state(files) ==
    IF files = <<>> THEN <<>>
    ELSE apply_operations(get_cumulative_state(SubSeq(files, 1, Len(files) - 1)),
                          files[Len(files)])

\* generate_field_modifications for a field that prev_schema has
generate_field_modifications(field_name, field_info, prev_schema) ==
    LET prev == prev_schema[field_name]
    IN  (IF field_info.type # prev.type
         THEN <<AlterTable("ALTER COLUMN", field_name, <<"TYPE", field_info.type>>)>>
         ELSE <<>>)
        \o (IF field_info.nullable # Get(prev, "nullable", TRUE)
            THEN <<AlterTable("ALTER COLUMN", field_name,
                              IF field_info.nullable THEN <<"DROP", "NOT NULL">>
                              ELSE <<"NOT NULL">>)>>
            ELSE <<>>)
        \o (IF field_info.unique # Get(prev, "unique", FALSE)
            THEN <<AlterTable("ALTER COLUMN", field_name,
                              IF field_info.unique THEN <<"UNIQUE">>
                              ELSE <<"DROP", "UNIQUE">>)>>
            ELSE <<>>)
        \o (IF field_info.default # Get(prev, "default", None)
                /\ field_info.type \in SQL_TYPES
            THEN <<AlterTable("ALTER COLUMN", field_name,
                              <<"SET DEFAULT", field_info.default>>)>>
            ELSE <<>>)
        \o (IF field_info.primary_key # Get(prev, "primary_key", FALSE)
            THEN <<AlterTable("ALTER COLUMN", field_name,
                              IF field_info.primary_key THEN <<"ADD PRIMARY KEY">>
                              ELSE <<"DROP", "ADD PRIMARY KEY">>)>>
            ELSE <<>>)

\* the operations of fields names[i..] of a table that previous_state has
RECURSIVE FieldOperations(_, _, _, _)
FieldOperations(names, i, current_schema, prev_schema) ==
    IF i > Len(names) THEN <<>>
    ELSE (IF names[i] \notin DOMAIN prev_schema
          THEN <<AlterTable("ADD COLUMN", names[i],
                            <<current_schema[names[i]].type>>)>>
          ELSE generate_field_modifications(names[i], current_schema[names[i]],
                                            prev_schema))
         \o FieldOperations(names, i + 1, current_schema, prev_schema)

\* generate_upgrade_operations; the empty sequence stands for ["pass"]
generate_upgrade_operations(previous_state, models) ==
    IF MgTable \notin DOMAIN previous_state
    THEN <<get_table_sql(models)>>
    ELSE FieldOperations(DeclaredOrder(models), 1, get_model_schema(models),
                         previous_state[MgTable])

\* the entity class as first written: one field
InitGen ==
    /\ mgModels \in [{MgFieldOrder[1]} -> MgFields]
    /\ mgFiles = <<>>
    /\ mgFresh = FALSE

\* generate_migration(name, schemas) writes the next file
GenerateMigration ==
    /\ Len(mgFiles) < MaxMigrations
    /\ mgFiles' = Append(mgFiles,
                         generate_upgrade_operations(get_cumulative_state(mgFiles),
                                                     mgModels))
    /\ mgFresh' = TRUE
    /\ UNCHANGED mgModels
    /\ UNCHANGED othersGen

\* the developer adds a field to the entity class
AddField(name, field) ==
    /\ name \notin DOMAIN mgModels
    /\ mgModels' = (name :> field) @@ mgModels
    /\ mgFresh' = FALSE
    /\ UNCHANGED mgFiles
    /\ UNCHANGED othersGen

NextGen ==
    \/ GenerateMigration
    \/ \E i \in 1..Len(MgFieldOrder), field \in MgFields :
           AddField(MgFieldOrder[i], field)

BootGen ==
    ParkCore /\ ParkRate /\ ParkAuth /\ ParkCookie /\ ParkId /\ ParkLegacy /\ InitGen

SpecGen == BootGen /\ [][NextGen]_vars

(***************************************************************************)
(* C1: persisting an audit record enqueues no AuditEvent: no create call   *)
(* that stored an AuditLog row dispatched an AuditEvent on the bus.        *)
(***************************************************************************)
C1_AuditInsertDispatchesNothing ==
    \A i \in 1..Len(ormLog) : ormLog[i].cls = "AuditLog" => ~ormLog[i].audited

\* the position of the first x in a trace, 0 if there is none
Pos(trace, x) ==
    IF \E i \in 1..Len(trace) : trace[i] = x
    THEN CHOOSE i \in 1..Len(trace) :
            trace[i] = x /\ \A j \in 1..(i - 1) : trace[j] # x
    ELSE 0

(***************************************************************************)
(* C5: for every request BeforeRequest is dispatched before the handler is *)
(* invoked, and once the pipeline has finished with the request, on any    *)
(* path, the response body has been written and AfterRequest was           *)
(* dispatched after it.                                                    *)
(***************************************************************************)
C5_BeforeAndAfterOnEveryPath ==
    \A r \in Requests :
        LET t == reqTrace[r]
        IN  /\ Pos(t, "handler") > 0 =>
                  Pos(t, "BeforeRequest") \in 1..(Pos(t, "handler") - 1)
            /\ reqPc[r] \in {"done", "crashed"} =>
                  /\ Pos(t, "BeforeRequest") > 0
                  /\ Pos(t, "body") > 0
                  /\ Pos(t, "AfterRequest") > Pos(t, "body")

\* the status the status map assigns to a failure kind
ClaimedStatus(e) ==
    CASE e = "ValidationError" -> 400
      [] e = "AuthenticationError" -> 401
      [] e = "ForbiddenError" -> 403
      [] e = "ResourceNotFoundError" -> 404
      [] e = "MethodNotAllowedError" -> 405
      [] e = "DuplicateResourceError" -> 409
      [] e = "TooManyRequestsError" -> 429
      [] e = "ServiceUnavailableError" -> 503
      [] OTHER -> 500

(***************************************************************************)
(* C6: when a handler raises, the response carries the status that the     *)
(* status map assigns to the failure kind raised.                          *)
(***************************************************************************)
C6_StatusPerFailureKind ==
    \A r \in Requests :
        reqRaised[r] # None => reqStatus[r] = ClaimedStatus(reqRaised[r])

(***************************************************************************)
(* C7: a request runs in one transaction: after its handler raised, no row *)
(* it wrote is visible; when the body of a successful response has been    *)
(* written, every row its handler wrote is committed.                      *)
(***************************************************************************)
C7_RollbackOnRaiseCommitOnSuccess ==
    \A r \in Requests :
        /\ reqRaised[r] # None => \A x \in store : x.by # r
        /\ (reqRaised[r] = None /\ Pos(reqTrace[r], "body") > 0) =>
              \A i \in 1..Len(ormLog) :
                  ormLog[i].r = r =>
                      \E x \in store :
                          /\ x.by = r
                          /\ x.cls = ormLog[i].cls
                          /\ x.key = ormLog[i].key

FileIndices == 1..Len(MigrationFiles)

\* connection c has executed every statement of the file in namespace n and
\* is past the INSERT of its hash
AppliedBy(c, file, n) ==
    /\ \A j \in 1..StatementCount(file) :
          [schema |-> n, file |-> file, j |-> j, by |-> c] \in effects
    /\ ~(cPc[c] = "record" /\ MigrationFiles[cLocal[c].i] = file)

(***************************************************************************)
(* C8: the hash of every migration applied to a namespace is in that       *)
(* namespace's migrations table, and a run of apply_pending_migrations     *)
(* that begins when a migration's hash is recorded executes none of its    *)
(* statements and records no row for it.                                   *)
(***************************************************************************)
C8_RecordedAndReapplyNoOp ==
    /\ \A c \in Connections, k \in FileIndices, n \in Tenants :
          AppliedBy(c, MigrationFiles[k], n) =>
              get_migration_hash(MigrationFiles[k]) \in migRows[n]
    /\ \A c \in Connections, k \in FileIndices :
          get_migration_hash(MigrationFiles[k]) \in cHist[c].atStart =>
              /\ \A j \in 1..StatementCount(MigrationFiles[k]) :
                    <<MigrationFiles[k], j>> \notin cHist[c].executed
              /\ get_migration_hash(MigrationFiles[k]) \notin cHist[c].recorded

\* a connection has run apply_pending_migrations to its end on a namespace to
\* which another connection had applied both migrations
C8_Witness ==
    \E c, d \in Connections :
        /\ c # d
        /\ cPc[c] = "connected"
        /\ \A k \in FileIndices :
              /\ get_migration_hash(MigrationFiles[k]) \in cHist[c].atStart
              /\ AppliedBy(d, MigrationFiles[k], cTenant[c])

(***************************************************************************)
(* C9: if a statement of a migration fails while the migration is applied  *)
(* to a namespace, none of the migration's earlier statements remains      *)
(* applied in the namespace and its hash is not recorded.                  *)
(***************************************************************************)
C9_FailedMigrationRolledBack ==
    \A c \in Connections :
        (cPc[c] = "failed" /\ cLocal[c].cause = "statement") =>
            LET file == MigrationFiles[cLocal[c].i]
            IN  /\ \A j \in 1..StatementCount(file) :
                      [schema |-> cPath[c], file |-> file, j |-> j, by |-> c]
                          \notin effects
                /\ get_migration_hash(file) \notin cHist[c].recorded

(***************************************************************************)
(* C10: of two connections that make contact with the same namespace, and  *)
(* of which no migration statement fails, neither fails on a row the other *)
(* inserted, and no migration statement is executed by both.               *)
(***************************************************************************)
C10_FirstContactSerialised ==
    \A c, d \in Connections :
        (/\ c # d
         /\ cTenant[c] # None
         /\ cTenant[c] = cTenant[d]
         /\ cLocal[c].cause # "statement"
         /\ cLocal[d].cause # "statement") =>
            /\ cLocal[c].cause # "unique_violation"
            /\ cHist[c].executed \cap cHist[d].executed = {}

(***************************************************************************)
(* C11: when an event is delivered, every listener registered for its name *)
(* is notified of it, in registration order, also when a listener          *)
(* registered earlier raises.                                              *)
(***************************************************************************)
ListenerPos(ls, l) == CHOOSE k \in 1..Len(ls) : ls[k] = l

C11_RaisingListenerSuppressesNone ==
    \A i \in 1..Len(notified) :
        LET ev == notified[i].event
            ls == busListeners[ev.name]
        IN  /\ \A k \in 1..Len(ls) :
                  \E j \in 1..Len(notified) :
                      notified[j].event = ev /\ notified[j].listener = ls[k]
            /\ \A j \in 1..Len(notified) :
                  (i < j /\ notified[j].event = ev) =>
                      ListenerPos(ls, notified[i].listener)
                          < ListenerPos(ls, notified[j].listener)

(***************************************************************************)
(* C12: when stop() returns, every event that was in the queue when it was *)
(* called has been notified to the listeners of its name, and every        *)
(* scheduled event not yet fired is in the stored file.                    *)
(***************************************************************************)
C12_StopDrainsAndPersists ==
    [][(running /\ ~running' /\ runOutcome' = "stop_returned") =>
          /\ \A i \in 1..Len(busQueue) :
                \A k \in 1..Len(busListeners[busQueue[i].name]) :
                    \E j \in 1..Len(notified') :
                        /\ notified'[j].event = busQueue[i]
                        /\ notified'[j].listener = busListeners[busQueue[i].name][k]
          /\ stored'.exists
          /\ \A i \in 1..Len(scheduled_events) :
                \E j \in 1..Len(stored'.entries) :
                    stored'.entries[j] = scheduled_events[i]]_vars

(***************************************************************************)
(* C13: when the server starts after a shutdown whose stop() returned, the *)
(* bus holds exactly the scheduled events that stop() stored, each with    *)
(* its name, payload and fire time, and its delivery loop runs.            *)
(***************************************************************************)
C13_StoredEventsRestored ==
    [][(~busLogger /\ busLogger' /\ runOutcome = "exit_clean") =>
          /\ scheduled_events' = stored.entries
          /\ busPc' = "running"]_vars

(***************************************************************************)
(* C14: while the bus runs, an event scheduled with a delay d > 0 at time  *)
(* t is notified to no listener before t + d, to no listener twice, and,   *)
(* once the time is past t + d and the delivery loop has done every pass   *)
(* that was due, exactly once to every listener registered for its name.   *)
(***************************************************************************)
Deliveries(id, l) ==
    Cardinality({i \in 1..Len(notified) :
                    notified[i].event.id = id /\ notified[i].listener = l})

LoopIdle ==
    /\ loopTasks = <<>>
    /\ ~(busPc = "running" /\ now >= wakeAt)

C14_ExactlyOnceAfterFireTime ==
    \A id \in DOMAIN scheduledAt :
        LET s == scheduledAt[id]
            ls == busListeners[s.name]
        IN  (running /\ s.d > 0) =>
                \A k \in 1..Len(ls) :
                    /\ now < s.t + s.d => Deliveries(id, ls[k]) = 0
                    /\ Deliveries(id, ls[k]) <= 1
                    /\ (now > s.t + s.d /\ LoopIdle) => Deliveries(id, ls[k]) = 1

(***************************************************************************)
(* C15: if dispatch_event(e1) is called before dispatch_event(e2), every   *)
(* notification of e1 precedes every notification of e2.                   *)
(***************************************************************************)
IsImmediate(ev) == ev.id \notin DOMAIN scheduledAt

C15_ImmediateEventsInDispatchOrder ==
    \A i, j \in 1..Len(notified) :
        (/\ i < j
         /\ IsImmediate(notified[i].event)
         /\ IsImmediate(notified[j].event)) =>
            notified[i].event.id <= notified[j].event.id

\* two events dispatched one after the other have both been notified
C15_Witness ==
    \E i, j \in 1..Len(notified) :
        /\ IsImmediate(notified[i].event)
        /\ IsImmediate(notified[j].event)
        /\ notified[i].event.id < notified[j].event.id

(***************************************************************************)
(* C16: of two scheduled events the delivery loop finds due in the same    *)
(* pass, both with listeners, the one with the earlier fire time (on a     *)
(* tie, the one scheduled first) is notified before the other.             *)
(***************************************************************************)
FiredBefore(a, b) ==
    \/ a.fire_time < b.fire_time
    \/ a.fire_time = b.fire_time /\ a.id < b.id

C16_SameTickAscendingFireTime ==
    \A x, y \in 1..Len(fired) :
        (/\ fired[x].at = fired[y].at
         /\ FiredBefore(fired[x], fired[y])
         /\ busListeners[scheduledAt[fired[x].id].name] # <<>>
         /\ busListeners[scheduledAt[fired[y].id].name] # <<>>) =>
            \A j \in 1..Len(notified) :
                notified[j].event.id = fired[y].id =>
                    \E i \in 1..(j - 1) : notified[i].event.id = fired[x].id

(***************************************************************************)
(* C17: an AuditEvent dispatched while the handler of a request runs is    *)
(* notified to no listener before the response of that request is written. *)
(***************************************************************************)
C17_AuditDeliveredAfterResponse ==
    \A i \in 1..Len(notified) :
        notified[i].event.name = "AuditEvent" =>
            reqPc[notified[i].event.req] = "done"

(***************************************************************************)
(* C18: stop() returns also when writing the scheduled events fails, and   *)
(* run() then ends without an exception.                                   *)
(***************************************************************************)
C18_StopCompletesWhenWriteFails ==
    runOutcome \notin {"stop_raised", "exit_exception"} \/ busPc = "unstarted"

(***************************************************************************)
(* C19: after a successful insert of an instance, its id is the id of the  *)
(* stored row and its dirty set is empty, whatever was set before.         *)
(***************************************************************************)
C19_InsertSetsIdAndClearsDirty ==
    lastOp.op = "insert" =>
        /\ instId = lastOp.id
        /\ instId \in DOMAIN tableRows
        /\ changed_fields = <<>>

(***************************************************************************)
(* C20: after an update of a stored instance with a non-empty dirty set D, *)
(* the stored row holds the instance's current value in every column of D, *)
(* and the dirty set is empty.                                             *)
(***************************************************************************)
C20_UpdateWritesEachDirtyField ==
    (lastOp.op = "update" /\ lastOp.dirty # {} /\ instId \in DOMAIN tableRows) =>
        /\ \A f \in lastOp.dirty : tableRows[instId][f] = values[f]
        /\ changed_fields = <<>>

(***************************************************************************)
(* C21: an insert that violates a unique constraint fails with             *)
(* DuplicateResourceError, which the pipeline answers with 409, and an     *)
(* insert that violates none is answered with 200 and assigns the id.      *)
(***************************************************************************)
C21_DuplicateInsertAnswered409 ==
    /\ lastOp.op = "insert_failed" =>
           /\ returned = Raises("DuplicateResourceError")
           /\ PipelineStatus(returned) = 409
    /\ lastOp.op = "insert" =>
           /\ PipelineStatus(returned) = 200
           /\ instId = lastOp.id
           /\ instId # 0

(***************************************************************************)
(* C22: a fetch that matches a row returns an instance whose loaded set is *)
(* every column of the row (where the class keeps a loaded set) and whose  *)
(* dirty set is empty; a fetch that matches no row fails with              *)
(* ResourceNotFoundError.                                                  *)
(***************************************************************************)
C22_FetchHydratesOrNotFound ==
    /\ lastOp.op = "get" =>
           /\ returned.kind = "instance"
           /\ values = tableRows[lastOp.id]
           /\ modelImpl = "orm" => loaded_fields = FieldSet \cup {"id"}
           /\ changed_fields = <<>>
    /\ lastOp.op \in {"get_missing", "get_raised"} =>
           returned = Raises("ResourceNotFoundError")

(***************************************************************************)
(* C23: first_or_create returns the pair (instance, created): when a row   *)
(* matching the filters exists, that row with created false and nothing    *)
(* inserted; otherwise an inserted instance built from the filters with    *)
(* created true.                                                           *)
(***************************************************************************)
C23_FirstOrCreatePair ==
    lastOp.op = "first_or_create" =>
        /\ returned.kind = "pair"
        /\ values["a"] = lastOp.filters
        /\ instId \in DOMAIN tableRows
        /\ tableRows[instId] = values
        /\ returned.created = ~lastOp.matched
        /\ lastOp.inserted = ~lastOp.matched

(***************************************************************************)
(* C24: an entity of a public class never emits an AuditEvent: neither     *)
(* creating nor updating it dispatches an AuditEvent on the bus.           *)
(***************************************************************************)
C24_PublicEntityEmitsNoAuditEvent ==
    selfPublic => dispatched = {}

(***************************************************************************)
(* C25: the projection without include_private contains no private field.  *)
(***************************************************************************)
C25_DefaultProjectionHidesPrivate ==
    (returned.kind = "dict" /\ ~returned.include_private) =>
        DOMAIN returned.value \cap PrivateFields = {}

(***************************************************************************)
(* C26: the instance reconstructed from the projection with                *)
(* include_private equals the original on every field, the id that a mixin *)
(* contributes included.                                                   *)
(***************************************************************************)
C26_ProjectionRoundTrip ==
    lastOp.op = "reconstruct" =>
        /\ values = lastOp.orig
        /\ instId = lastOp.id

(***************************************************************************)
(* C27: if a path resolves through a route, substituting the params into   *)
(* the route's template gives back exactly the path.                       *)
(***************************************************************************)
Substitute(template, params) ==
    [i \in 1..Len(template) |->
        IF template[i] \in DOMAIN ParamOf /\ ParamOf[template[i]].name \in DOMAIN params
        THEN IF ParamOf[template[i]].type = "int"
             THEN (IF params[ParamOf[template[i]].name] = 7 THEN "7" ELSE "?")
             ELSE params[ParamOf[template[i]].name]
        ELSE template[i]]

C27_ParamsRebuildPath ==
    resolution.handler # 0 =>
        [parts |-> Substitute(resolution.path, resolution.params), slash |-> FALSE]
            = resolution.request_path

(***************************************************************************)
(* C28: the handler invoked is that of the first route, in router order    *)
(* and then route order, whose method is the request's and whose template  *)
(* matches the path, where an {id:int} segment matches integer segments    *)
(* only and a non-matching route is passed over.                           *)
(***************************************************************************)
TemplateMatches(template, parts) ==
    /\ Len(template) = Len(parts)
    /\ \A i \in 1..Len(template) :
           IF template[i] \in DOMAIN ParamOf
           THEN ParamOf[template[i]].type = "int" => parts[i] \in DOMAIN IntOf
           ELSE template[i] = parts[i]

FirstMatch(method, path) ==
    LET hits == {ij \in RouteIndex :
                    /\ routers[ij[1]][ij[2]].method = method
                    /\ TemplateMatches(routers[ij[1]][ij[2]].path, path.parts)}
    IN  IF hits = {} THEN 0
        ELSE LET ij == CHOOSE a \in hits :
                           \A b \in hits : a[1] < b[1] \/ (a[1] = b[1] /\ a[2] <= b[2])
             IN  routers[ij[1]][ij[2]].handler

C28_FirstMatchWins ==
    "method" \in DOMAIN resolution =>
        resolution.handler = FirstMatch(resolution.method, resolution.request_path)

(***************************************************************************)
(* C29: when a scope is left, by completion or by an exception, the five   *)
(* context values are again those of the enclosing scope, and None outside *)
(* every scope.                                                            *)
(***************************************************************************)
C29_ScopeExitRestoresPrevious ==
    \A t \in Tasks :
        taskPc[t] = "running" =>
            CurrentContext(t) =
                IF tokens[t] = <<>> THEN [v \in CtxNames |-> 0]
                ELSE ScopeValues(t, Len(tokens[t]) - 1)

C29_Witness ==
    /\ lastExit.raised
    /\ lastExit.task \in Tasks
    /\ Len(tokens[lastExit.task]) = 1
    /\ CurrentContext(lastExit.task) = ScopeValues(lastExit.task, 0)

(***************************************************************************)
(* C30: while several requests are in their scopes on the one loop, the db *)
(* handle, request and tenant a task reads from the context are its own.   *)
(***************************************************************************)
C30_TaskReadsOwnContext ==
    \A t \in Tasks :
        (taskPc[t] = "running" /\ tokens[t] # <<>>) =>
            \A v \in {"db", "request", "customer"} : CurrentContext(t)[v] \div 10 = t

C30_Witness ==
    \E t, u \in Tasks :
        /\ t # u
        /\ tokens[t] # <<>>
        /\ Len(tokens[u]) = MaxDepth
        /\ lastExit.task = t


(***************************************************************************)
(* C37: projecting an instance leaves its dirty set as it was, so that an  *)
(* instance with nothing dirty has nothing dirty afterwards and a save()   *)
(* that follows sends no statement.                                        *)
(***************************************************************************)
C37_ProjectionKeepsDirtySet ==
    lastOp.op = "dict" => SeqToSet(changed_fields) = lastOp.dirty

(***************************************************************************)
(* C38: save() on an instance that was never loaded from or written to     *)
(* storage sends an INSERT: no UPDATE is sent for an instance whose row    *)
(* does not exist.                                                         *)
(***************************************************************************)
C38_UnsavedInstanceIsInserted ==
    (modelImpl = "orm" /\ lastOp.op \in {"update", "update_failed"}) =>
        lastOp.id \in DOMAIN tableRows


(***************************************************************************)
(* C39: at the step in which stop() returns, every event that was          *)
(* scheduled has been notified to every listener of its name or is in the  *)
(* stored file.                                                            *)
(***************************************************************************)
C39_NoScheduledEventLostAtStop ==
    [][(running /\ ~running' /\ runOutcome' = "stop_returned") =>
          \A id \in DOMAIN scheduledAt :
              \/ \A k \in 1..Len(busListeners[scheduledAt[id].name]) :
                     Deliveries(id, busListeners[scheduledAt[id].name][k]) >= 1
              \/ \E j \in 1..Len(stored'.entries) : stored'.entries[j].event.id = id]_vars

(***************************************************************************)
(* C36: every AuditEvent notified to the audit listener has one audit row  *)
(* persisted for it: the listener's create_audit_log call reaches the      *)
(* insert.                                                                 *)
(***************************************************************************)
C36_AuditListenerPersistsRow ==
    \A i \in 1..Len(notified) :
        (notified[i].listener = "audit_listener"
            /\ notified[i].event.name = "AuditEvent") =>
            create_audit_log(FALSE, DeliveryTaskRequest) = "insert"

\* the requests for the key of request i that limiter L admitted before
\* request i and that lie in the window of request i
AdmittedBefore(i, L) ==
    Cardinality({j \in 1..(i - 1) :
        /\ rlLog[j].key = rlLog[i].key
        /\ L \in rlLog[j].allowed
        /\ rlLog[j].at > rlLog[i].at - rlLimits[L].period})

Authorized(header, required) ==
    /\ header.present
    /\ header.decodes
    /\ header.prefix = "Bearer "
    /\ header.token.parts = 3
    /\ header.token.key = SECRET_KEY
    /\ required.permissions \subseteq header.token.payload.permissions
    /\ required.roles = {} \/ required.roles \cap header.token.payload.roles # {}

(***************************************************************************)
(* C32: the wrapped handler is invoked only for an authorized request, and *)
(* every other request is answered 403 without invoking it.                *)
(***************************************************************************)
C32_InvokedOnlyWhenAuthorized ==
    authCall.op = "call" =>
        /\ authCall.result.invoked => Authorized(authCall.header, authRequired)
        /\ ~Authorized(authCall.header, authRequired) =>
               authCall.result.status = 403 /\ ~authCall.result.invoked

\* text begins with prefix
StartsWith(text, prefix) ==
    Len(text) >= Len(prefix) /\ SubSeq(text, 1, Len(prefix)) = prefix

(***************************************************************************)
(* C33: when the handler has returned and the response is sent, for every  *)
(* name and value the handler passed to set_cookie the response carries a  *)
(* set-cookie header "name=value; ...".                                    *)
(***************************************************************************)
C33_EverySetCookieIsEmitted ==
    ckPc = "sent" =>
        \A i \in 1..Len(ckCalls) :
            \E h \in 1..Len(ckHeaders) :
                StartsWith(ckHeaders[h],
                           ckCalls[i].name \o <<"=">> \o ckCalls[i].value \o <<";">>)

(***************************************************************************)
(* C34: of two ids generated at different milliseconds, the one generated  *)
(* earlier is the smaller under str comparison.                            *)
(***************************************************************************)
C34_EarlierIdSortsFirst ==
    \A i, j \in 1..Len(idLog) :
        idLog[i].timestamp < idLog[j].timestamp => StrLess(idLog[i].id, idLog[j].id)

(***************************************************************************)
(* C40: stop(save_function) terminates: once it is called, its wait on     *)
(* queue.join() returns and the scheduled events are saved.                *)
(***************************************************************************)
C40_StopTerminates ==
    lgShutdown ~> (lgStop = "returned" /\ lgSaved >= 0)

\* what the diff compares of a column's entry
Compared(info) ==
    [type |-> info.type, primary_key |-> Get(info, "primary_key", FALSE),
     nullable |-> Get(info, "nullable", TRUE), default |-> Get(info, "default", None),
     unique |-> Get(info, "unique", FALSE)]

(***************************************************************************)
(* C35: once a migration has been generated from the entity as it stands,  *)
(* the schema replayed from the migration files equals the desired schema, *)
(* column by column in what the diff compares, and a further migration     *)
(* holds no operation.                                                     *)
(***************************************************************************)
C35_NoOperationsAfterGenerate ==
    mgFresh =>
        LET cumulative == get_cumulative_state(mgFiles)
            desired == get_current_state(mgModels)
        IN  /\ DOMAIN cumulative = DOMAIN desired
            /\ \A t \in DOMAIN desired :
                  /\ DOMAIN cumulative[t] = DOMAIN desired[t]
                  /\ \A n \in DOMAIN desired[t] :
                        Compared(cumulative[t][n]) = Compared(desired[t][n])
            /\ generate_upgrade_operations(cumulative, mgModels) = <<>>

=============================================================================
